---- MODULE Spec2Model ----
(***************************************************************************)
(* The concurrent fetch engine of email_downloader.py: the orchestrator    *)
(* (main thread), the background scanner, the download worker pool with    *)
(* its done-callbacks, cancellation (Ctrl+C), the retry rounds and the     *)
(* summary.                                                                *)
(*                                                                         *)
(* A task is a pair <<folder, uid>>.  failed_tasks and new_failed are      *)
(* Python lists; they are modelled as multisets (task -> multiplicity):    *)
(* the code only takes their length, their truth value and iterates them.  *)
(***************************************************************************)
EXTENDS Integers, Sequences, FiniteSets, TLC

\* ------------------------------------------------------------- bounds ----
InboxSize == 1
NumOther == 1
OtherSize == 1
Threads == 2
MaxRetries == 1
MaxManual == 2
NumMsgIds == 2

\* -------------------------------------------------------- the mailbox ----
INBOX == 0
Folders == 0..NumOther
other_folders == 1..NumOther
UidsOf(f) == IF f = INBOX THEN 1..InboxSize ELSE 1..OtherSize
Tasks == {t \in Folders \X (1..(InboxSize + OtherSize)) : t[2] \in UidsOf(t[1])}
\* The Message-ID header of the message behind a task (never empty here; a
\* fetch that yields no Message-ID is the value NoMsgId).
MessageIdOf(t) == ((t[2] - 1) % NumMsgIds) + 1
NoMsgId == 0

RECURSIVE SeqOfRange(_, _)
SeqOfRange(a, b) == IF a > b THEN <<>> ELSE <<a>> \o SeqOfRange(a + 1, b)
\* fetch_email_ids(folder): the UIDs the search returns, in server order.
fetch_email_ids(f) == IF f = INBOX THEN SeqOfRange(1, InboxSize) ELSE SeqOfRange(1, OtherSize)

\* ---------------------------------------------------------- multisets ----
EmptyList == [t \in Tasks |-> 0]
ListAppend(b, t) == [b EXCEPT ![t] = @ + 1]
RECURSIVE SumOver(_, _)
SumOver(b, S) == IF S = {} THEN 0 ELSE LET t == CHOOSE x \in S : TRUE IN b[t] + SumOver(b, S \ {t})
ListLen(b) == SumOver(b, Tasks)
ListSet(b) == {t \in Tasks : b[t] > 0}

\* ------------------------------------------------------------ results ----
\* What download_wrapper returns (success, error_msg), by error_msg.
Successes == {"ok", "SKIPPED"}
Failures == {"Shutdown initiated", "Connection failed", "Failed to select folder",
             "Connection lost during folder selection", "Empty content", "exception"}
\* future.result() of a future cancelled by shutdown(cancel_futures=True)
Cancelled == "CancelledError"

\* ------------------------------------------------------------ workers ----
Pool1 == 1..Threads
Pool2 == (Threads + 1)..(2 * Threads)
Workers == Pool1 \cup Pool2

VARIABLES
  \* inputs
  max_retries, batch,
  \* orchestrator (main thread)
  mpc, status, m_ids, retry_attempt, timeout_val, new_failed, recovered, dl_loaded,
  total_items, processed_count, remaining_count,
  rep_downloaded, rep_skipped, rep_failed,
  \* shared state
  shutdown_event, pool_shutdown, pbar_total, queue, rqueue, fut, handled,
  downloaded_count, skipped_count, failed_tasks, folder_stats, seen_ids, writes,
  files, wrote_to,
  \* download workers (Pool1: download_executor, Pool2: the retry round's executor)
  wpc, wtask, wconn, wmsg, wres,
  \* background scanner
  spc, s_folder, s_ids,
  \* history (not read by the program)
  manual_rounds, first_empty, retry1_ok, last_failed, got_body, body_fetches, cls, recovered_set,
  outstanding, submitted_after_signal, folds,
  round_before, round_attempted, round_succeeded, prev_succeeded,
  \* the driver around the engine: options, bootstrap client, prompts, exit
  server, in_table, tb_config, s_date, e_date, today,
  bpc, potential_servers, connection_attempts, server_address, connection,
  attempted, passwords, final_subfolder_path, criteria, found, clock, sidecar, exit_code,
  \* the folder listing of the bootstrap
  lpc, listing, folders, inbox_folder, others, segments,
  \* the client objects and the threads that use them
  tl_client, scan_client, inbox_client, clients_made, in_op, touched,
  \* background_scan over several folders
  sc_pc, sc_folder, sc_ids, sc_total, sc_submitted, sc_seen,
  \* one pool thread's tasks, one IMAP operation at a time
  k_pc, k_conn, k_sel, k_folder, k_n, k_re, k_fetch,
  \* the four locks of the download phase and the threads that take them
  lk_prog, lk_pc, lk_held

\* The driver's state; nothing in the engine writes it.
bvars == <<server, in_table, tb_config, s_date, e_date, today,
           bpc, potential_servers, connection_attempts, server_address, connection,
           attempted, passwords, final_subfolder_path, criteria, found, clock, sidecar,
           exit_code>>
lvars == <<lpc, listing, folders, inbox_folder, others, segments>>
tvars == <<tl_client, scan_client, inbox_client, clients_made, in_op, touched>>
scvars == <<sc_pc, sc_folder, sc_ids, sc_total, sc_submitted, sc_seen>>
kvars == <<k_pc, k_conn, k_sel, k_folder, k_n, k_re, k_fetch>>
lockvars == <<lk_prog, lk_pc, lk_held>>
dvars == <<bvars, lvars, tvars, scvars, kvars, lockvars>>
inputs == <<max_retries, batch, dvars>>
mvars == <<mpc, status, m_ids, retry_attempt, timeout_val, new_failed, recovered, dl_loaded,
           total_items, processed_count, remaining_count,
           rep_downloaded, rep_skipped, rep_failed>>
cvars == <<downloaded_count, skipped_count, failed_tasks, folder_stats, handled>>
\* What the run leaves on disk: writes counts the files a task has written,
\* files is the directory tree as (path, content) pairs, wrote_to (history)
\* the paths each task has written to.
disk == <<writes, files, wrote_to>>
shvars == <<shutdown_event, pool_shutdown, pbar_total, queue, rqueue, fut, seen_ids, disk>>
wvars == <<wpc, wtask, wconn, wmsg, wres>>
svars == <<spc, s_folder, s_ids>>
rvars == <<round_before, round_attempted, round_succeeded, prev_succeeded>>
gvars == <<first_empty, retry1_ok, last_failed>>
hvars == <<manual_rounds, gvars, got_body, body_fetches, cls, recovered_set,
           outstanding, submitted_after_signal, folds, rvars>>
vars == <<inputs, mvars, cvars, shvars, wvars, svars, hvars>>

NoTask == <<-1, -1>>
ZeroStats == [downloaded |-> 0, skipped |-> 0, failed |-> 0]

\* The engine's state as lines 323-350 set it up.
EngineInit ==
  /\ max_retries \in 0..MaxRetries
  /\ batch \in BOOLEAN
  /\ mpc = "inbox"
  /\ status = "Completed"
  /\ m_ids = <<>>
  /\ retry_attempt = 0
  /\ timeout_val = 0
  /\ new_failed = EmptyList
  /\ recovered = 0
  /\ dl_loaded = 0
  /\ total_items = 0
  /\ processed_count = 0
  /\ remaining_count = 0
  /\ rep_downloaded = 0
  /\ rep_skipped = 0
  /\ rep_failed = 0
  /\ shutdown_event = FALSE
  /\ pool_shutdown = FALSE
  /\ pbar_total = 0
  /\ queue = <<>>
  /\ rqueue = EmptyList
  /\ fut = [t \in Tasks |-> "none"]
  /\ handled = [t \in Tasks |-> FALSE]
  /\ downloaded_count = 0
  /\ skipped_count = 0
  /\ failed_tasks = EmptyList
  /\ folder_stats = [f \in Folders |-> ZeroStats]
  /\ seen_ids = {}
  /\ writes = [t \in Tasks |-> 0]
  /\ files = {}
  /\ wrote_to = [t \in Tasks |-> {}]
  /\ wpc = [w \in Workers |-> "idle"]
  /\ wtask = [w \in Workers |-> NoTask]
  /\ wconn = [w \in Workers |-> "none"]
  /\ wmsg = [w \in Workers |-> NoMsgId]
  /\ wres = [w \in Workers |-> "none"]
  /\ spc = "none"
  /\ s_folder = 1
  /\ s_ids = <<>>
  /\ manual_rounds = 0
  /\ first_empty = {}
  /\ retry1_ok = {}
  /\ last_failed = {}
  /\ got_body = {}
  /\ body_fetches = [m \in 1..NumMsgIds |-> 0]
  /\ cls = [t \in Tasks |-> "none"]
  /\ recovered_set = {}
  /\ outstanding = {}
  /\ submitted_after_signal = {}
  /\ folds = [t \in Tasks |-> 0]
  /\ round_before = EmptyList
  /\ round_attempted = EmptyList
  /\ round_succeeded = {}
  /\ prev_succeeded = {}

NoHost == "none"
NoDate == <<>>

\* strftime('%Y%m%d') of a date <<year, month, day>>, as the number it spells.
Ymd(d) == d[1] * 10000 + d[2] * 100 + d[3]

\* Lines 405-425: os.path.join(output_dir, base_name), where base_name is
\* emailuser_domain, then _<start> or _Start, then _<end> or _<today>.
run_dir(start, end, day) ==
  <<"output_dir", "user_domain",
    IF start # NoDate THEN [text |-> "", ymd |-> Ymd(start)] ELSE [text |-> "Start", ymd |-> 0],
    [text |-> "", ymd |-> IF end # NoDate THEN Ymd(end) ELSE Ymd(day)]>>

\* The driver as the engine finds it: the bootstrap has pinned a server
\* (line 297) and nothing is written or asked yet.
DriverIdle ==
  /\ server = NoHost
  /\ in_table = FALSE
  /\ tb_config = NoHost
  /\ s_date = NoDate
  /\ e_date = NoDate
  /\ today = <<2024, 2, 1>>
  /\ final_subfolder_path = run_dir(NoDate, NoDate, today)
  /\ bpc = "engine"
  /\ potential_servers = <<>>
  /\ connection_attempts = <<>>
  /\ server_address = "imap.domain"
  /\ connection = "none"
  /\ attempted = <<"imap.domain">>
  /\ passwords = 0
  /\ criteria = <<>>
  /\ found = {}
  /\ clock = 0
  /\ sidecar = <<>>
  /\ exit_code = -1

\* The threads of a run: the pool threads, the main thread and the scan
\* executor's thread; and the client objects a run may create.
MaxClients == 4
MainThread == 0
ScanThread == 2 * Threads + 1
ThreadIds == Workers \cup {MainThread, ScanThread}

\* No client object exists yet.
SessionsIdle ==
  /\ tl_client = [w \in Workers |-> 0]
  /\ scan_client = 0
  /\ inbox_client = 0
  /\ clients_made = 0
  /\ in_op = [th \in ThreadIds |-> 0]
  /\ touched = [id \in 1..MaxClients |-> {}]

\* background_scan has not been started.
ScanIdle ==
  /\ sc_pc = "idle"
  /\ sc_folder = 1
  /\ sc_ids = <<>>
  /\ sc_total = 0
  /\ sc_submitted = <<>>
  /\ sc_seen = <<>>

\* The threads of the download phase: the pool's workers, the scanner
\* thread and the main thread; Nobody stands for a lock that is free.
Scanner == <<"scanner", 0>>
Orchestrator == <<"main", 0>>
Nobody == <<"free", 0>>
LockThreads == {<<"worker", i>> : i \in 1..Threads} \cup {Scanner, Orchestrator}
Locks == {"count_lock", "folder_stats_lock", "seen_lock", "active_threads_lock"}

\* No thread is inside a routine that takes a lock, and every lock is free.
LocksIdle ==
  /\ lk_prog = [t \in LockThreads |-> <<>>]
  /\ lk_pc = [t \in LockThreads |-> 1]
  /\ lk_held = [l \in Locks |-> Nobody]

\* No task is under way and the thread has no client yet.
TaskIdle ==
  /\ k_pc = "idle"
  /\ k_conn = "none"
  /\ k_sel = 0
  /\ k_folder = 0
  /\ k_n = 0
  /\ k_re = FALSE
  /\ k_fetch = {}

\* No folder listing is in progress.
ListerIdle ==
  /\ lpc = "idle"
  /\ listing = <<>>
  /\ folders = <<>>
  /\ inbox_folder = <<>>
  /\ others = <<>>
  /\ segments = <<>>

Init == EngineInit /\ DriverIdle /\ ListerIdle /\ SessionsIdle /\ ScanIdle /\ TaskIdle /\ LocksIdle

\* ============================================================ sessions ====
\* A worker's thread-local client: "none" (no client, or connection None),
\* "open" (a logged-in handle), "stale" (a handle that is not None but is
\* closed, logged out or was never authenticated).

\* AutoIMAPClient.connect(server_hostname=...): one candidate.
connect(prev) ==
  { [conn |-> "open", r |-> "ok"],
    \* the handle is assigned, then login raises IMAP4.error
    [conn |-> "stale", r |-> "fail"],
    \* the constructor raises gaierror / timeout / SSLError
    [conn |-> prev, r |-> "fail"],
    \* any other exception (ConnectionRefusedError, ...) leaves connect()
    [conn |-> prev, r |-> "raise"] }

\* get_thread_client: r = "ok" (a client), "none" (returns None), "raise";
\* ops is what it did to the session, in order.
get_thread_client(conn) ==
  LET viaConnect(p, before) ==
        { [conn |-> c.conn,
           r |-> IF c.r = "ok" THEN "ok" ELSE IF c.r = "fail" THEN "none" ELSE "raise",
           ops |-> before \o <<"connect">>]
          : c \in connect(p) }
  IN IF conn = "none"
       THEN viaConnect("none", <<>>)
       ELSE {[conn |-> conn, r |-> "ok", ops |-> <<"noop">>]}   \* noop() succeeds
            \cup viaConnect("stale", <<"noop", "close">>)       \* noop() raises: close(), connect()

\* An except clause that leaves the thread's connection as it is.
except_clause_keep(conn) == conn

\* The except clause of lines 138-146: close() inside try/except, then
\* thread_local.client.connection = None.
except_clause(conn) == "none"

\* select_folder on the client, with the one reconnect of lines 86-96.
select_with_reconnect(conn) ==
  LET second ==
        UNION { IF c.r = "ok"
                  THEN { [conn |-> "open", r |-> "ok"],
                         [conn |-> "open", r |-> "Failed to select folder"] }
                  ELSE IF c.r = "fail"
                  THEN { [conn |-> c.conn, r |-> "Connection lost during folder selection"] }
                  ELSE { [conn |-> c.conn, r |-> "raise"] }
                : c \in connect("stale") }
  IN (IF conn = "open" THEN {[conn |-> "open", r |-> "ok"]} ELSE {}) \cup second

\* fetch_message_id: the header value, or None on any error or missing header.
fetch_message_id(t) == {MessageIdOf(t), NoMsgId}

\* download_email_task, lines 79-100, with what get_thread_client gave (g):
\* r = "continue" (go on to dedup / fetch) or the result; ops is what was
\* done on the session up to there.  An exception goes to the except clause
\* of lines 138-146, which clears the thread's connection and returns str(e).
after_client(g, t, ev) ==
  IF g.r = "raise"
    THEN {[conn |-> except_clause(g.conn), r |-> "exception", msg |-> NoMsgId, ops |-> g.ops]}
  ELSE IF g.r = "none"
    THEN {[conn |-> g.conn, r |-> "Connection failed", msg |-> NoMsgId, ops |-> g.ops]}
  ELSE IF ev
    THEN {[conn |-> g.conn, r |-> "Shutdown initiated", msg |-> NoMsgId, ops |-> g.ops]}
  ELSE UNION { IF s.r = "raise"
                 THEN {[conn |-> except_clause(s.conn), r |-> "exception", msg |-> NoMsgId,
                        ops |-> g.ops \o <<"select">>]}
               ELSE IF s.r # "ok"
                 THEN {[conn |-> s.conn, r |-> s.r, msg |-> NoMsgId,
                        ops |-> g.ops \o <<"select">>]}
               ELSE {[conn |-> s.conn, r |-> "continue", msg |-> m,
                      ops |-> g.ops \o <<"select", "fetch_message_id">>]
                     : m \in fetch_message_id(t)}
             : s \in select_with_reconnect(g.conn) }

\* download_email_task, lines 73-100: from the start of the task up to the
\* Message-ID fetch.
task_prefix(conn, t, ev) ==
  UNION { after_client(g, t, ev) : g \in get_thread_client(conn) }

\* =========================================================== callbacks ====
\* download_done_callback without the test of future.handled (lines 364-366).
download_done_callback_unguarded(c, t, r) ==
  IF r = "SKIPPED"
    THEN [c EXCEPT !.handled[t] = TRUE, !.skipped = @ + 1,
                   !.stats[t[1]].skipped = @ + 1]
  ELSE IF r = "ok"
    THEN [c EXCEPT !.handled[t] = TRUE, !.downloaded = @ + 1,
                   !.stats[t[1]].downloaded = @ + 1]
  ELSE [c EXCEPT !.handled[t] = TRUE, !.failed = ListAppend(@, t),
                 !.stats[t[1]].failed = @ + 1]

\* download_done_callback with every outcome taken as a failure.
download_done_callback_all_failed(c, t, r) ==
  IF c.handled[t] THEN c
  ELSE [c EXCEPT !.handled[t] = TRUE, !.failed = ListAppend(@, t),
                 !.stats[t[1]].failed = @ + 1]

\* download_done_callback(future) on a done future whose result() is r
\* (Cancelled: result() raises CancelledError), as a function of the counters.
download_done_callback(c, t, r) ==
  IF c.handled[t] THEN c
  ELSE IF r = "SKIPPED"
    THEN [c EXCEPT !.handled[t] = TRUE, !.skipped = @ + 1,
                   !.stats[t[1]].skipped = @ + 1]
  ELSE IF r = "ok"
    THEN [c EXCEPT !.handled[t] = TRUE, !.downloaded = @ + 1,
                   !.stats[t[1]].downloaded = @ + 1]
  ELSE [c EXCEPT !.handled[t] = TRUE, !.failed = ListAppend(@, t),
                 !.stats[t[1]].failed = @ + 1]

Counters == [downloaded |-> downloaded_count, skipped |-> skipped_count,
             failed |-> failed_tasks, stats |-> folder_stats, handled |-> handled]

FoldsOf(c) == c.downloaded + c.skipped + ListLen(c.failed)

\* Which counter a callback that took the counters from c to d has raised.
ClassOf(c, d, old) ==
  IF d.downloaded > c.downloaded THEN "downloaded"
  ELSE IF d.skipped > c.skipped THEN "skipped"
  ELSE IF ListLen(d.failed) > ListLen(c.failed) THEN "failed"
  ELSE old

SetCounters(c) ==
  /\ downloaded_count' = c.downloaded
  /\ skipped_count' = c.skipped
  /\ failed_tasks' = c.failed
  /\ folder_stats' = c.stats
  /\ handled' = c.handled

\* retry_done_callback without the test of success.
retry_done_callback_always(nf, t, r) == ListAppend(nf, t)

\* retry_done_callback(future): appends the task to new_failed unless it succeeded.
retry_done_callback(nf, t, r) == IF r \in Successes THEN nf ELSE ListAppend(nf, t)

\* ============================================================= workers ====
\* The task ends with result r: download_wrapper returns, the future is set
\* FINISHED (Future.set_result), and only then are the done-callbacks invoked.
Finish(w, t, r, c) ==
  /\ wres' = [wres EXCEPT ![w] = r]
  /\ wpc' = [wpc EXCEPT ![w] = "callback"]
  /\ wconn' = [wconn EXCEPT ![w] = c]
  /\ wtask' = [wtask EXCEPT ![w] = t]
  /\ wmsg' = [wmsg EXCEPT ![w] = NoMsgId]
  /\ first_empty' = IF w \in Pool1 /\ r = "Empty content"
                      THEN first_empty \cup {t} ELSE first_empty
  /\ retry1_ok' = IF w \in Pool2 /\ r \in Successes /\ retry_attempt + manual_rounds = 1
                    THEN retry1_ok \cup {t} ELSE retry1_ok
  /\ last_failed' = IF r \in Successes THEN last_failed \ {t} ELSE last_failed \cup {t}
  /\ fut' = IF w \in Pool1 THEN [fut EXCEPT ![t] = "finished"] ELSE fut

\* A pool thread that starts the task without a look at the shutdown event.
StartTask_no_look(w, t) ==
  /\ wpc' = [wpc EXCEPT ![w] = "session"]
  /\ wtask' = [wtask EXCEPT ![w] = t]
  /\ fut' = IF w \in Pool1 THEN [fut EXCEPT ![t] = "running"] ELSE fut
  /\ UNCHANGED <<wres, wconn, wmsg, gvars>>

\* A pool thread takes the next work item and runs download_wrapper up to its
\* first look at the shutdown event (line 436, and line 74).
StartTask(w, t) ==
  IF shutdown_event
    THEN Finish(w, t, "Shutdown initiated", wconn[w])
    ELSE /\ wpc' = [wpc EXCEPT ![w] = "session"]
         /\ wtask' = [wtask EXCEPT ![w] = t]
         /\ fut' = IF w \in Pool1 THEN [fut EXCEPT ![t] = "running"] ELSE fut
         /\ UNCHANGED <<wres, wconn, wmsg, gvars>>

Dequeue(w) ==
  /\ wpc[w] = "idle"
  /\ \/ /\ w \in Pool1
        /\ queue # <<>>
        /\ queue' = Tail(queue)
        /\ UNCHANGED <<rqueue, round_attempted>>
        /\ StartTask(w, Head(queue))
     \/ /\ w \in Pool2
        /\ \E t \in Tasks :
             /\ rqueue[t] > 0
             /\ rqueue' = [rqueue EXCEPT ![t] = @ - 1]
             /\ round_attempted' = ListAppend(round_attempted, t)
             /\ StartTask(w, t)
        /\ UNCHANGED queue
  /\ UNCHANGED <<inputs, mvars, cvars, svars, shutdown_event, pool_shutdown,
                 pbar_total, seen_ids, disk, manual_rounds, got_body, body_fetches,
                 cls, recovered_set, outstanding, submitted_after_signal, folds,
                 round_before, round_succeeded, prev_succeeded>>

\* get_thread_client, the second look at the event (line 82), select_folder
\* with its reconnect, fetch_message_id (lines 77-100).
Session(w) ==
  /\ wpc[w] = "session"
  /\ \E o \in task_prefix(wconn[w], wtask[w], shutdown_event) :
       IF o.r = "continue"
         THEN /\ wpc' = [wpc EXCEPT ![w] = IF o.msg # NoMsgId THEN "dedup" ELSE "fetch"]
              /\ wmsg' = [wmsg EXCEPT ![w] = o.msg]
              /\ wconn' = [wconn EXCEPT ![w] = o.conn]
              /\ UNCHANGED <<wres, wtask, gvars, fut>>
         ELSE Finish(w, wtask[w], o.r, o.conn)
  /\ UNCHANGED <<inputs, mvars, cvars, svars, shutdown_event, pool_shutdown, pbar_total,
                 queue, rqueue, seen_ids, disk, manual_rounds, got_body, body_fetches,
                 cls, recovered_set, outstanding, submitted_after_signal, folds, rvars>>

\* The test of lines 102-105 without the seen_ids.add of line 106.
test_and_insert_no_add(seen, m) == [skip |-> m \in seen, seen |-> seen]

\* The test-and-insert on the dedup index under seen_lock (lines 101-106):
\* [skip |-> the task is a duplicate, seen |-> the index afterwards].
test_and_insert(seen, m) ==
  IF m \in seen THEN [skip |-> TRUE, seen |-> seen]
  ELSE [skip |-> FALSE, seen |-> seen \cup {m}]

Dedup(w) ==
  /\ wpc[w] = "dedup"
  /\ LET d == test_and_insert(seen_ids, wmsg[w]) IN
       /\ seen_ids' = d.seen
       /\ IF d.skip
            THEN Finish(w, wtask[w], "SKIPPED", wconn[w])
            ELSE /\ wpc' = [wpc EXCEPT ![w] = "fetch"]
                 /\ UNCHANGED <<wres, wconn, wtask, wmsg, gvars, fut>>
  /\ UNCHANGED <<inputs, mvars, cvars, svars, shutdown_event, pool_shutdown, pbar_total,
                 queue, rqueue, disk, manual_rounds, got_body, body_fetches, cls,
                 recovered_set, outstanding, submitted_after_signal, folds, rvars>>

\* The third look at the event (line 109) and fetch_email_content (line 112).
Fetch(w) ==
  /\ wpc[w] = "fetch"
  /\ IF shutdown_event
       THEN /\ Finish(w, wtask[w], "Shutdown initiated", wconn[w])
            /\ UNCHANGED <<got_body, body_fetches>>
       ELSE \E content \in {"content", "empty"} :
              /\ got_body' = IF content = "content" THEN got_body \cup {wtask[w]} ELSE got_body
              /\ body_fetches' = IF wmsg[w] # NoMsgId
                                   THEN [body_fetches EXCEPT ![wmsg[w]] = @ + 1]
                                   ELSE body_fetches
              /\ IF content = "content"
                   THEN /\ wpc' = [wpc EXCEPT ![w] = "write"]
                        /\ UNCHANGED <<wres, wconn, wtask, wmsg, gvars, fut>>
                   ELSE Finish(w, wtask[w], "Empty content", wconn[w])
  /\ UNCHANGED <<inputs, mvars, cvars, svars, shutdown_event, pool_shutdown, pbar_total,
                 queue, rqueue, seen_ids, disk, manual_rounds, cls, recovered_set,
                 outstanding, submitted_after_signal, folds, rvars>>

\* ------------------------------------------------------------- paths ----
\* Strings that the code takes apart are sequences of characters.
Range(q) == {q[i] : i \in 1..Len(q)}
\* The letters of the names used here: the ASCII letters and one letter
\* outside ASCII, all of which \w matches and str.lower / str.upper map.
LowerAlphabet ==
  <<"a", "b", "c", "d", "e", "f", "g", "h", "i", "j", "k", "l", "m", "n",
    "o", "p", "q", "r", "s", "t", "u", "v", "w", "x", "y", "z", "é">>
UpperAlphabet ==
  <<"A", "B", "C", "D", "E", "F", "G", "H", "I", "J", "K", "L", "M", "N",
    "O", "P", "Q", "R", "S", "T", "U", "V", "W", "X", "Y", "Z", "É">>
Letters == Range(LowerAlphabet) \cup Range(UpperAlphabet)
Digits == <<"0", "1", "2", "3", "4", "5", "6", "7", "8", "9">>

\* email_id.decode(): the UID's decimal text (UIDs here have one digit).
decode(uid) == Digits[uid + 1]

\* The folder names as list_folders returns them: INBOX, and under it
\* "Inbox.A 1", "Inbox.A 2", ...
FolderName(f) ==
  IF f = INBOX THEN <<"I", "N", "B", "O", "X">>
  ELSE <<"I", "n", "b", "o", "x", ".", "A", " ", decode(f)>>

\* str.upper() and str.lower()
UpperChar(c) ==
  IF c \in Range(LowerAlphabet)
    THEN UpperAlphabet[CHOOSE i \in 1..Len(LowerAlphabet) : LowerAlphabet[i] = c]
    ELSE c
LowerChar(c) ==
  IF c \in Range(UpperAlphabet)
    THEN LowerAlphabet[CHOOSE i \in 1..Len(UpperAlphabet) : UpperAlphabet[i] = c]
    ELSE c
lower(str) == [i \in 1..Len(str) |-> LowerChar(str[i])]
upper(str) == [i \in 1..Len(str) |-> UpperChar(str[i])]

\* sanitize_filename without the substitution.
sanitize_filename_keep(filename) == filename

\* sanitize_filename: re.sub(r'[^\w\-\.]', '_', filename)
sanitize_filename(filename) ==
  [i \in 1..Len(filename) |->
     IF filename[i] \in Letters \cup Range(Digits) \cup {"_", "-", "."}
       THEN filename[i] ELSE "_"]

\* Lines 118-122: the folder without a leading "INBOX." or "INBOX/".
display_folder(folder) ==
  IF /\ Len(folder) >= 6
     /\ upper(SubSeq(folder, 1, 6)) \in {<<"I", "N", "B", "O", "X", ".">>,
                                         <<"I", "N", "B", "O", "X", "/">>}
    THEN SubSeq(folder, 7, Len(folder))
    ELSE folder

\* Lines 124-131: os.path.join(output_dir, folder_safe, filename), as the
\* path's components.
file_path(output_dir, folder, email_id) ==
  LET folder_safe == sanitize_filename(display_folder(folder))
  IN <<output_dir, folder_safe,
       <<"email_">> \o folder_safe \o <<"_", decode(email_id), ".eml">>>>

\* The message body the server holds for a task's UID.
BodyOf(t) == <<"RFC822", t[1], t[2]>>

\* open(file_path, 'wb') and f.write(content) on the tree.
write_file(tree, path, content) == {x \in tree : x[1] # path} \cup {<<path, content>>}

\* ensure_directory, open, write (lines 115-135); an OSError goes to the
\* except clause of lines 138-146, which clears the thread's connection.
Write(w) ==
  /\ wpc[w] = "write"
  /\ \/ LET t == wtask[w]
            path == file_path(final_subfolder_path, FolderName(t[1]), t[2])
        IN /\ writes' = [writes EXCEPT ![t] = @ + 1]
           /\ files' = write_file(files, path, BodyOf(t))
           /\ wrote_to' = [wrote_to EXCEPT ![t] = @ \cup {path}]
           /\ Finish(w, t, "ok", wconn[w])
     \/ /\ UNCHANGED disk
        /\ Finish(w, wtask[w], "exception", except_clause(wconn[w]))
  /\ UNCHANGED <<inputs, mvars, cvars, svars, shutdown_event, pool_shutdown, pbar_total,
                 queue, rqueue, seen_ids, manual_rounds, got_body, body_fetches, cls,
                 recovered_set, outstanding, submitted_after_signal, folds, rvars>>

\* The worker thread invokes the future's done-callback, then is idle again;
\* a thread of an executor that is shut down and has no work left exits, and
\* its thread-local client goes with it.
Callback(w) ==
  /\ wpc[w] = "callback"
  /\ wpc' = [wpc EXCEPT ![w] = "idle"]
  /\ wtask' = [wtask EXCEPT ![w] = NoTask]
  /\ wres' = [wres EXCEPT ![w] = "none"]
  /\ wconn' = IF w \in Pool1 /\ pool_shutdown /\ queue = <<>>
                THEN [wconn EXCEPT ![w] = "none"] ELSE wconn
  /\ IF w \in Pool1
       THEN LET c == download_done_callback(Counters, wtask[w], wres[w]) IN
              /\ SetCounters(c)
              /\ folds' = [folds EXCEPT ![wtask[w]] = @ + FoldsOf(c) - FoldsOf(Counters)]
              /\ cls' = [cls EXCEPT ![wtask[w]] = ClassOf(Counters, c, @)]
              /\ UNCHANGED <<new_failed, round_succeeded>>
       ELSE /\ new_failed' = retry_done_callback(new_failed, wtask[w], wres[w])
            /\ round_succeeded' = IF wres[w] \in Successes
                                    THEN round_succeeded \cup {wtask[w]}
                                    ELSE round_succeeded
            /\ UNCHANGED <<cvars, folds, cls>>
  /\ UNCHANGED <<inputs, mpc, status, m_ids, retry_attempt, timeout_val, recovered, dl_loaded,
                 total_items, processed_count, remaining_count,
                 rep_downloaded, rep_skipped, rep_failed,
                 svars, shvars, wmsg, manual_rounds, gvars, got_body, body_fetches,
                 recovered_set, outstanding, submitted_after_signal,
                 round_before, round_attempted, prev_succeeded>>

WorkerStep(w) == Dequeue(w) \/ Session(w) \/ Dedup(w) \/ Fetch(w) \/ Write(w) \/ Callback(w)

\* ============================================================= scanner ====
\* submit_download after its look at the event: download_executor.submit
\* raises RuntimeError once the executor is shut down.
\* A submit that hands the task to the executor twice.
submit_twice(q, f, t) ==
  IF pool_shutdown THEN [queue |-> q, fut |-> f]
  ELSE [queue |-> Append(Append(q, t), t), fut |-> [f EXCEPT ![t] = "queued"]]

submit(q, f, t) ==
  IF pool_shutdown THEN [queue |-> q, fut |-> f]
  ELSE [queue |-> Append(q, t), fut |-> [f EXCEPT ![t] = "queued"]]

\* The scan executor's thread starts background_scan: connect (lines 479-482).
ScanStart ==
  /\ spc = "pending"
  /\ \E ok \in BOOLEAN : spc' = IF ok THEN "folder" ELSE "done"
  /\ UNCHANGED <<inputs, mvars, cvars, shvars, wvars, s_folder, s_ids, hvars>>

\* Top of the folder loop (line 485), select_folder and fetch_email_ids.
ScanFolder ==
  /\ spc = "folder"
  /\ IF s_folder \notin other_folders \/ shutdown_event
       THEN /\ spc' = "done"
            /\ UNCHANGED <<s_folder, s_ids>>
       ELSE \E ids \in {fetch_email_ids(s_folder), <<>>} :
              IF ids = <<>>
                THEN /\ s_folder' = s_folder + 1
                     /\ UNCHANGED <<spc, s_ids>>
                ELSE /\ s_ids' = ids
                     /\ spc' = "count"
                     /\ UNCHANGED s_folder
  /\ UNCHANGED <<inputs, mvars, cvars, shvars, wvars, hvars>>

\* with count_lock: pbar.total += count (lines 504-506).
ScanCount ==
  /\ spc = "count"
  /\ pbar_total' = pbar_total + Len(s_ids)
  /\ spc' = "check"
  /\ UNCHANGED <<inputs, mvars, cvars, wvars, s_folder, s_ids, hvars,
                 shutdown_event, pool_shutdown, queue, rqueue, fut, seen_ids, disk>>

\* The looks at the event before a submit (lines 509 and 447).
ScanCheck ==
  /\ spc = "check"
  /\ IF shutdown_event
       THEN /\ spc' = "folder"
            /\ s_folder' = s_folder + 1
            /\ s_ids' = <<>>
       ELSE /\ spc' = "submit"
            /\ UNCHANGED <<s_folder, s_ids>>
  /\ UNCHANGED <<inputs, mvars, cvars, shvars, wvars, hvars>>

\* download_executor.submit and the bookkeeping of lines 451-455.
ScanSubmit ==
  /\ spc = "submit"
  /\ LET s == submit(queue, fut, <<s_folder, Head(s_ids)>>) IN
       /\ queue' = s.queue
       /\ fut' = s.fut
  /\ submitted_after_signal' =
       IF shutdown_event /\ ~pool_shutdown
         THEN submitted_after_signal \cup {<<s_folder, Head(s_ids)>>}
         ELSE submitted_after_signal
  /\ s_ids' = Tail(s_ids)
  /\ IF Tail(s_ids) = <<>>
       THEN /\ spc' = "folder"
            /\ s_folder' = s_folder + 1
       ELSE /\ spc' = "check"
            /\ UNCHANGED s_folder
  /\ UNCHANGED <<inputs, mvars, cvars, wvars, manual_rounds, gvars, got_body,
                 body_fetches, cls, recovered_set,
                 outstanding, folds, rvars,
                 shutdown_event, pool_shutdown, pbar_total, rqueue, seen_ids, disk>>

ScannerStep == ScanStart \/ ScanFolder \/ ScanCount \/ ScanCheck \/ ScanSubmit

\* ======================================================== orchestrator ====
\* executor.shutdown(): the idle threads of the pool exit.
threads_exit(P, conn) == [w \in Workers |-> IF w \in P /\ wpc[w] = "idle" THEN "none" ELSE conn[w]]

\* AutoIMAPClient.close() on a handle (imap_client.py 268-274): an error of
\* CLOSE is swallowed, LOGOUT is sent outside the try and its error leaves
\* close(); without a handle nothing is sent.
close(handle) == IF handle = "none" THEN {"ok"} ELSE {"ok", "raise"}

\* Step 1 (lines 462-471): scan INBOX on a client of its own.  An exception
\* that leaves c.connect or c.close escapes the try of line 460 (its handlers
\* are except KeyboardInterrupt and finally) and ends main in the outer
\* except of line 724, without a summary.
MainInbox ==
  /\ mpc = "inbox"
  /\ \E c \in connect("none") :
       IF c.r = "raise"
         THEN /\ mpc' = "aborted"
              /\ pool_shutdown' = TRUE
              /\ UNCHANGED <<m_ids, pbar_total>>
         ELSE IF c.r = "fail"
         THEN /\ mpc' = "start_scan"
              /\ UNCHANGED <<m_ids, pbar_total, pool_shutdown>>
         ELSE \E ids \in {fetch_email_ids(INBOX), <<>>}, closed \in close(c.conn) :
                IF closed = "raise"
                  THEN /\ mpc' = "aborted_close"
                       /\ pool_shutdown' = TRUE
                       /\ UNCHANGED <<m_ids, pbar_total>>
                  ELSE /\ m_ids' = ids
                       /\ pbar_total' = pbar_total + Len(ids)
                       /\ mpc' = IF ids = <<>> THEN "start_scan" ELSE "inbox_submit"
                       /\ UNCHANGED pool_shutdown
  /\ UNCHANGED <<inputs, status, retry_attempt, timeout_val, new_failed, recovered, dl_loaded,
                 total_items, processed_count, remaining_count,
                 rep_downloaded, rep_skipped, rep_failed,
                 cvars, wvars, svars, hvars,
                 shutdown_event, queue, rqueue, fut, seen_ids, disk>>

\* for eid in ids: submit_download(inbox_folder, eid)  (lines 472-474)
MainSubmitInbox ==
  /\ mpc = "inbox_submit"
  /\ LET s == IF shutdown_event THEN [queue |-> queue, fut |-> fut]
              ELSE submit(queue, fut, <<INBOX, Head(m_ids)>>) IN
       /\ queue' = s.queue
       /\ fut' = s.fut
  /\ m_ids' = Tail(m_ids)
  /\ mpc' = IF Tail(m_ids) = <<>> THEN "start_scan" ELSE "inbox_submit"
  /\ UNCHANGED <<inputs, status, retry_attempt, timeout_val, new_failed, recovered, dl_loaded,
                 total_items, processed_count, remaining_count,
                 rep_downloaded, rep_skipped, rep_failed,
                 cvars, wvars, svars, hvars,
                 shutdown_event, pool_shutdown, pbar_total, rqueue, seen_ids, disk>>

\* A main thread that starts the background scan before its INBOX step.
MainStartScan_first ==
  /\ mpc = "inbox"
  /\ spc = "none"
  /\ spc' = "pending"
  /\ UNCHANGED <<inputs, mvars, cvars, wvars, s_folder, s_ids, hvars, shvars>>

\* scan_future = scan_executor.submit(background_scan)  (line 520)
MainStartScan ==
  /\ mpc = "start_scan"
  /\ spc' = "pending"
  /\ mpc' = "wait"
  /\ UNCHANGED <<inputs, status, m_ids, retry_attempt, timeout_val, new_failed, recovered, dl_loaded,
                 total_items, processed_count, remaining_count,
                 rep_downloaded, rep_skipped, rep_failed,
                 cvars, wvars, s_folder, s_ids, hvars, shvars>>

\* f.done() of a download future
FutureDone(t) == fut[t] \in {"none", "finished", "cancelled"}

\* The wait loop's exit test (lines 530-537).
wait_loop_exit == spc = "done" /\ \A t \in Tasks : FutureDone(t)

\* The wait loop ends; the finally clause shuts the executors down (wait=False).
MainWaitExit ==
  /\ mpc = "wait"
  /\ wait_loop_exit
  /\ mpc' = "retry_check"
  /\ pool_shutdown' = TRUE
  /\ wconn' = threads_exit(Pool1, wconn)
  /\ UNCHANGED <<inputs, status, m_ids, retry_attempt, timeout_val, new_failed, recovered, dl_loaded,
                 total_items, processed_count, remaining_count,
                 rep_downloaded, rep_skipped, rep_failed,
                 cvars, wpc, wtask, wmsg, wres, svars, hvars,
                 shutdown_event, pbar_total, queue, rqueue, fut, seen_ids, disk>>

TryBlock == {"inbox", "inbox_submit", "start_scan", "wait"}

\* Ctrl+C inside the try of line 460: the handler sets the event (line 569).
KeyboardInterrupt ==
  /\ mpc \in TryBlock
  /\ shutdown_event' = TRUE
  /\ outstanding' = {t \in Tasks : fut[t] \in {"queued", "running"}}
  /\ UNCHANGED submitted_after_signal
  /\ mpc' = "exc_scan"
  /\ UNCHANGED <<inputs, status, m_ids, retry_attempt, timeout_val, new_failed, recovered, dl_loaded,
                 total_items, processed_count, remaining_count,
                 rep_downloaded, rep_skipped, rep_failed,
                 cvars, wvars, svars, manual_rounds, gvars, got_body, body_fetches, cls,
                 recovered_set, folds, rvars,
                 pool_shutdown, pbar_total, queue, rqueue, fut, seen_ids, disk>>

\* scan_executor.shutdown(wait=False, cancel_futures=True)  (line 570)
ExcScanShutdown ==
  /\ mpc = "exc_scan"
  /\ spc' = IF spc = "pending" THEN "cancelled" ELSE spc
  /\ mpc' = "exc_pool"
  /\ UNCHANGED <<inputs, status, m_ids, retry_attempt, timeout_val, new_failed, recovered, dl_loaded,
                 total_items, processed_count, remaining_count,
                 rep_downloaded, rep_skipped, rep_failed,
                 cvars, wvars, s_folder, s_ids, hvars, shvars>>

\* Future.cancel() of every queued work item runs its done-callbacks in the
\* calling thread; result() of a cancelled future raises CancelledError.
RECURSIVE cancel_futures(_, _)
cancel_futures(c, q) ==
  IF q = <<>> THEN c
  ELSE cancel_futures(download_done_callback(c, Head(q), Cancelled), Tail(q))

InQueue(t) == \E i \in 1..Len(queue) : queue[i] = t

\* download_executor.shutdown(wait=False, cancel_futures=True); status = "Cancelled"
ExcPoolShutdown ==
  /\ mpc = "exc_pool"
  /\ pool_shutdown' = TRUE
  /\ SetCounters(cancel_futures(Counters, queue))
  /\ folds' = [t \in Tasks |->
                 IF InQueue(t)
                   THEN folds[t] + FoldsOf(download_done_callback(Counters, t, Cancelled))
                                 - FoldsOf(Counters)
                   ELSE folds[t]]
  /\ cls' = [t \in Tasks |->
               IF InQueue(t)
                 THEN ClassOf(Counters, download_done_callback(Counters, t, Cancelled), cls[t])
                 ELSE cls[t]]
  /\ fut' = [t \in Tasks |-> IF InQueue(t) THEN "cancelled" ELSE fut[t]]
  /\ queue' = <<>>
  /\ status' = "Cancelled"
  /\ mpc' = "retry_check"
  /\ wconn' = threads_exit(Pool1, wconn)
  /\ UNCHANGED <<inputs, m_ids, retry_attempt, timeout_val, new_failed, recovered, dl_loaded,
                 total_items, processed_count, remaining_count,
                 rep_downloaded, rep_skipped, rep_failed,
                 wpc, wtask, wmsg, wres, svars, manual_rounds, gvars, got_body,
                 body_fetches, recovered_set, outstanding, submitted_after_signal,
                 rvars,
                 shutdown_event, pbar_total, rqueue, seen_ids, disk>>

\* ========================================================= retry phase ====
\* The loop guard of line 582 without its test of the status.
retry_loop_guard_any == ListLen(failed_tasks) > 0

\* while failed_tasks and status == "Completed"  (line 582)
retry_loop_guard == ListLen(failed_tasks) > 0 /\ status = "Completed"

\* A round that resubmits every task the first pass was given.
retry_tasks_all(failed) == [t \in Tasks |-> IF fut[t] # "none" THEN 1 ELSE 0]

\* for folder, eid in failed_tasks: executor.submit(...)  (lines 634-639)
retry_tasks(failed) == failed

\* Lines 616-639: a fresh executor; every task in failed_tasks is submitted.
StartRound ==
  /\ new_failed' = EmptyList
  /\ rqueue' = retry_tasks(failed_tasks)
  /\ wpc' = [w \in Workers |-> IF w \in Pool2 THEN "idle" ELSE wpc[w]]
  /\ wconn' = [w \in Workers |-> IF w \in Pool2 THEN "none" ELSE wconn[w]]
  /\ mpc' = "retry_wait"
  /\ round_before' = failed_tasks
  /\ round_attempted' = EmptyList
  /\ prev_succeeded' = round_succeeded
  /\ round_succeeded' = {}
  /\ UNCHANGED <<wtask, wmsg, wres>>

\* Lines 582-611 in batch mode or with automatic retries left.
RetryCheck ==
  /\ mpc = "retry_check"
  /\ IF ~retry_loop_guard
       THEN /\ mpc' = "sum_compute"
            /\ UNCHANGED <<retry_attempt, timeout_val, new_failed, rqueue, wvars, rvars>>
       ELSE IF retry_attempt < max_retries
         THEN /\ timeout_val' = 60 * (retry_attempt + 1)
              /\ retry_attempt' = retry_attempt + 1
              /\ StartRound
         ELSE /\ timeout_val' = 60
              /\ mpc' = IF batch THEN "sum_compute" ELSE "prompt"
              /\ UNCHANGED <<retry_attempt, new_failed, rqueue, wvars, rvars>>
  /\ UNCHANGED <<inputs, status, m_ids, recovered, dl_loaded,
                 total_items, processed_count, remaining_count,
                 rep_downloaded, rep_skipped, rep_failed,
                 cvars, svars, manual_rounds, gvars, got_body, body_fetches, cls,
                 recovered_set, outstanding, submitted_after_signal, folds,
                 shutdown_event, pool_shutdown, pbar_total, queue, fut, seen_ids, disk>>

\* timed_input returns once a key is pressed: the key, or the default on Enter.
timed_input(key, default) == IF key = "enter" THEN default ELSE key

\* The manual round's prompt (lines 597-611).
Prompt ==
  /\ mpc = "prompt"
  /\ \E key \in {"y", "n", "enter"} :
       LET choice == timed_input(key, IF max_retries > 0 THEN "n" ELSE "y") IN
         IF choice = "y"
           THEN /\ manual_rounds < MaxManual
                /\ manual_rounds' = manual_rounds + 1
                /\ timeout_val' = 60 * (retry_attempt + 1)
                /\ StartRound
           ELSE /\ mpc' = "sum_compute"
                /\ UNCHANGED <<manual_rounds, timeout_val, new_failed, rqueue, wvars, rvars>>
  /\ UNCHANGED <<inputs, status, m_ids, retry_attempt, recovered, dl_loaded,
                 total_items, processed_count, remaining_count,
                 rep_downloaded, rep_skipped, rep_failed,
                 cvars, svars, gvars, got_body, body_fetches, cls, recovered_set,
                 outstanding, submitted_after_signal, folds,
                 shutdown_event, pool_shutdown, pbar_total, queue, fut, seen_ids, disk>>

\* The with-block of line 632 ends: shutdown(wait=True) joins the round's
\* threads, so every retry task has run and every retry callback has returned.
RetryWait ==
  /\ mpc = "retry_wait"
  /\ ListLen(rqueue) = 0
  /\ \A w \in Pool2 : wpc[w] = "idle"
  /\ mpc' = "acct_648"
  /\ wconn' = threads_exit(Pool2, wconn)
  /\ UNCHANGED <<inputs, status, m_ids, retry_attempt, timeout_val, new_failed, recovered, dl_loaded,
                 total_items, processed_count, remaining_count,
                 rep_downloaded, rep_skipped, rep_failed,
                 cvars, wpc, wtask, wmsg, wres, svars, hvars, shvars>>

\* recovered = len(failed_tasks) - len(new_failed)  (line 648)
Acct648 ==
  /\ mpc = "acct_648"
  /\ recovered' = ListLen(failed_tasks) - ListLen(new_failed)
  /\ recovered_set' = ListSet(failed_tasks) \ ListSet(new_failed)
  /\ mpc' = "acct_650"
  /\ UNCHANGED <<inputs, status, m_ids, retry_attempt, timeout_val, new_failed, dl_loaded,
                 total_items, processed_count, remaining_count,
                 rep_downloaded, rep_skipped, rep_failed,
                 cvars, wvars, svars, shvars,
                 manual_rounds, gvars, got_body, body_fetches, cls, outstanding,
                 submitted_after_signal, folds, rvars>>

\* failed_tasks = new_failed (line 650) and the read of downloaded_count in
\* line 653, which is not made under count_lock.
Acct650 ==
  /\ mpc = "acct_650"
  /\ failed_tasks' = new_failed
  /\ dl_loaded' = downloaded_count
  /\ mpc' = "acct_653"
  /\ UNCHANGED <<inputs, status, m_ids, retry_attempt, timeout_val, new_failed, recovered,
                 total_items, processed_count, remaining_count,
                 rep_downloaded, rep_skipped, rep_failed,
                 downloaded_count, skipped_count, folder_stats, handled,
                 wvars, svars, hvars, shvars>>

\* downloaded_count += recovered: the write of line 653.
Acct653 ==
  /\ mpc = "acct_653"
  /\ downloaded_count' = dl_loaded + recovered
  /\ cls' = [t \in Tasks |-> IF t \in recovered_set THEN "downloaded" ELSE cls[t]]
  /\ mpc' = "retry_check"
  /\ UNCHANGED <<inputs, status, m_ids, retry_attempt, timeout_val, new_failed, recovered, dl_loaded,
                 total_items, processed_count, remaining_count,
                 rep_downloaded, rep_skipped, rep_failed,
                 skipped_count, failed_tasks, folder_stats, handled,
                 wvars, svars, shvars,
                 manual_rounds, gvars, got_body, body_fetches, recovered_set,
                 outstanding, submitted_after_signal, folds, rvars>>

\* ============================================================= summary ====
Max(a, b) == IF a > b THEN a ELSE b

\* Lines 665-667.
SumCompute ==
  /\ mpc = "sum_compute"
  /\ total_items' = pbar_total
  /\ processed_count' = downloaded_count + skipped_count + ListLen(failed_tasks)
  /\ remaining_count' = Max(0, pbar_total - (downloaded_count + skipped_count + ListLen(failed_tasks)))
  /\ mpc' = "emit_downloaded"
  /\ UNCHANGED <<inputs, status, m_ids, retry_attempt, timeout_val, new_failed, recovered, dl_loaded,
                 rep_downloaded, rep_skipped, rep_failed,
                 cvars, wvars, svars, hvars, shvars>>

\* click.echo(f"Downloaded: {downloaded_count}")  (line 670)
EmitDownloaded ==
  /\ mpc = "emit_downloaded"
  /\ rep_downloaded' = downloaded_count
  /\ mpc' = "emit_skipped"
  /\ UNCHANGED <<inputs, status, m_ids, retry_attempt, timeout_val, new_failed, recovered, dl_loaded,
                 total_items, processed_count, remaining_count, rep_skipped, rep_failed,
                 cvars, wvars, svars, hvars, shvars>>

\* click.echo(f"Skipped (Duplicates): {skipped_count}")  (line 671)
EmitSkipped ==
  /\ mpc = "emit_skipped"
  /\ rep_skipped' = skipped_count
  /\ mpc' = "emit_failed"
  /\ UNCHANGED <<inputs, status, m_ids, retry_attempt, timeout_val, new_failed, recovered, dl_loaded,
                 total_items, processed_count, remaining_count, rep_downloaded, rep_failed,
                 cvars, wvars, svars, hvars, shvars>>

\* click.echo(f"Final Errors: {len(failed_tasks)}") and the Remaining line
\* (lines 672-673).
EmitFailed ==
  /\ mpc = "emit_failed"
  /\ rep_failed' = ListLen(failed_tasks)
  /\ mpc' = "done"
  /\ UNCHANGED <<inputs, status, m_ids, retry_attempt, timeout_val, new_failed, recovered, dl_loaded,
                 total_items, processed_count, remaining_count, rep_downloaded, rep_skipped,
                 cvars, wvars, svars, hvars, shvars>>

MainStep ==
  \/ MainInbox \/ MainSubmitInbox \/ MainStartScan \/ MainWaitExit
  \/ ExcScanShutdown \/ ExcPoolShutdown
  \/ RetryCheck \/ RetryWait \/ Acct648 \/ Acct650 \/ Acct653
  \/ SumCompute \/ EmitDownloaded \/ EmitSkipped \/ EmitFailed

Next ==
  \/ MainStep
  \/ KeyboardInterrupt
  \/ Prompt
  \/ ScannerStep
  \/ \E w \in Workers : WorkerStep(w)

Spec == Init /\ [][Next]_vars

\* The threads of the program run whenever they can; the user (Ctrl+C, the
\* key that answers a prompt) owes the program nothing.
FairMain == Spec /\ WF_vars(MainStep)
FairSpec ==
  /\ Spec
  /\ WF_vars(MainStep)
  /\ WF_vars(ScannerStep)
  /\ \A w \in Workers : WF_vars(WorkerStep(w))

\* ============================================================== driver ====
\* main() around the engine: the bootstrap connect loop (lines 265-297), the
\* UID search of a scan, the ZIP prompt and the sidecar (lines 677-720), and
\* the exit code the process ends with.

MaxPasswords == 1
MaxDay == 2
TIMEOUT == 10

\* COMMON_PROVIDERS[domain], imap.<domain>, mail.<domain>, and a host that
\* is none of them.
Mapped == "imap.provider.com"
ImapDomain == "imap.domain"
MailDomain == "mail.domain"
OtherHost == "mx.domain"

\* _guess_server with the Thunderbird host listed even when it is a duplicate.
guess_server_dup(inTable, tb) ==
  LET c1 == IF inTable THEN <<Mapped>> ELSE <<>>
      c2 == c1 \o <<ImapDomain, MailDomain>>
  IN IF tb # NoHost THEN Append(c2, tb) ELSE c2

\* _guess_server: the candidates, in the order they are tried.
guess_server(inTable, tb) ==
  LET c1 == IF inTable THEN <<Mapped>> ELSE <<>>
      c2 == c1 \o <<ImapDomain, MailDomain>>
  IN IF tb # NoHost /\ tb \notin Range(c2) THEN Append(c2, tb) ELSE c2

\* What one candidate can do: log in, raise an exception the except clause
\* of line 112 names, or raise one it does not name.
Caught == {"IMAP4.error", "socket.timeout"}
Uncaught == {"ConnectionRefusedError"}
Outcomes == {"ok"} \cup Caught \cup Uncaught

\* str(e)
ErrStr(e) ==
  CASE e = "IMAP4.error" -> "LOGIN failed"
    [] e = "socket.timeout" -> "timed out"
    [] OTHER -> "Connection refused"

\* The handle self.connection holds after a candidate: login raises with the
\* new handle assigned; the constructor raises with the old one kept.
HandleAfter(out, prev) ==
  IF out = "ok" THEN "auth" ELSE IF out = "IMAP4.error" THEN "nonauth" ELSE prev

\* Dates as <<year, month, day>>; strftime("%d-%b-%Y") and the server's
\* reading of it.
Dates == {<<2024, m, d>> : m \in 1..2, d \in 1..MaxDay}
\* The days on which the run is started.
RunDays == {<<2024, 2, MaxDay + 1>>, <<2024, 2, MaxDay + 2>>}
MonthName == <<"Jan", "Feb">>
strftime(d) == <<d[3], MonthName[d[2]], d[1]>>
MonthNumber(n) == CHOOSE m \in 1..2 : MonthName[m] = n
ParseImapDate(x) == <<x[3], MonthNumber(x[2]), x[1]>>
DateLess(a, b) ==
  \/ a[1] < b[1]
  \/ a[1] = b[1] /\ a[2] < b[2]
  \/ a[1] = b[1] /\ a[2] = b[2] /\ a[3] < b[3]

\* fetch_email_ids, lines 198-212, with the end bound left out.
search_criteria_since_only(start, end) ==
  LET since == IF start # NoDate THEN <<<<"SINCE", strftime(start)>>>> ELSE <<>>
  IN IF since = <<>> THEN <<<<"ALL">>>> ELSE since

\* fetch_email_ids, lines 198-212: the search keys, joined by a space.
search_criteria(start, end) ==
  LET since == IF start # NoDate THEN <<<<"SINCE", strftime(start)>>>> ELSE <<>>
      before == IF end # NoDate THEN <<<<"BEFORE", strftime(end)>>>> ELSE <<>>
      keys == since \o before
  IN IF keys = <<>> THEN <<<<"ALL">>>> ELSE keys

\* A server that honours the criteria (RFC 3501 SEARCH: the keys are ANDed;
\* SINCE is on-or-after, BEFORE is strictly earlier).  The mailbox holds one
\* message per date, the date standing for its UID.
Matches(date, key) ==
  CASE key[1] = "SINCE" -> ~DateLess(date, ParseImapDate(key[2]))
    [] key[1] = "BEFORE" -> DateLess(date, ParseImapDate(key[2]))
    [] OTHER -> TRUE
uid_search(crit) == {d \in Dates : \A i \in 1..Len(crit) : Matches(d, crit[i])}

\* The rest of the state, which the driver's steps leave alone.
erest == <<max_retries, batch, m_ids, retry_attempt, timeout_val, new_failed, recovered,
           dl_loaded, total_items, processed_count, remaining_count,
           rep_downloaded, rep_skipped, rep_failed,
           cvars, shvars, wvars, svars, hvars>>
dopts == <<server, in_table, tb_config, s_date, e_date, today, lvars, tvars, scvars, kvars, lockvars>>

\* client.connect(server_hostname=server, ...), lines 90-95.
BootConnect ==
  /\ bpc = "connect"
  /\ potential_servers' = IF server # NoHost THEN <<server>>
                          ELSE guess_server(in_table, tb_config)
  /\ connection_attempts' = <<>>
  /\ attempted' = <<>>
  /\ bpc' = "try"
  /\ UNCHANGED <<erest, mpc, status, dopts, server_address, connection, passwords,
                 final_subfolder_path, criteria, found, clock, sidecar, exit_code>>

\* One turn of the loop of lines 97-117.  An exception that line 112 does
\* not name leaves connect() and, the loop of line 270 being outside the
\* try of line 300, ends the process with a traceback.
BootTry ==
  /\ bpc = "try"
  /\ Len(attempted) < Len(potential_servers)
  /\ LET h == potential_servers[Len(attempted) + 1] IN
     \E out \in Outcomes :
       /\ attempted' = Append(attempted, h)
       /\ connection' = HandleAfter(out, connection)
       /\ IF out = "ok"
            THEN /\ server_address' = h
                 /\ bpc' = "connected"
                 /\ UNCHANGED <<connection_attempts, exit_code>>
          ELSE IF out \in Caught
            THEN /\ connection_attempts' = Append(connection_attempts, <<h, ErrStr(out)>>)
                 /\ UNCHANGED <<server_address, bpc, exit_code>>
          ELSE /\ bpc' = "exited"
               /\ exit_code' = 1
               /\ UNCHANGED <<server_address, connection_attempts>>
  /\ UNCHANGED <<erest, mpc, status, dopts, potential_servers, passwords,
                 final_subfolder_path, criteria, found, clock, sidecar>>

\* Line 119: every candidate has failed, connect() returns False.
BootFail ==
  /\ bpc = "try"
  /\ Len(attempted) = Len(potential_servers)
  /\ bpc' = "password"
  /\ UNCHANGED <<erest, mpc, status, dopts, potential_servers, connection_attempts,
                 server_address, connection, attempted, passwords,
                 final_subfolder_path, criteria, found, clock, sidecar, exit_code>>

\* Lines 287-293: a new password retries the loop; an empty one returns from
\* main(), which ends the process with code 0.
BootPassword ==
  /\ bpc = "password"
  /\ \/ /\ passwords < MaxPasswords
        /\ passwords' = passwords + 1
        /\ bpc' = "connect"
        /\ UNCHANGED exit_code
     \/ /\ bpc' = "exited"
        /\ exit_code' = 0
        /\ UNCHANGED passwords
  /\ UNCHANGED <<erest, mpc, status, dopts, potential_servers, connection_attempts,
                 server_address, connection, attempted,
                 final_subfolder_path, criteria, found, clock, sidecar>>

\* Lines 405-428: the run's directory, named before any task is submitted.
MakeRunDir ==
  /\ bpc = "connected"
  /\ final_subfolder_path' = run_dir(s_date, e_date, today)
  /\ bpc' = "scan"
  /\ UNCHANGED <<erest, mpc, status, dopts, potential_servers, connection_attempts,
                 server_address, connection, attempted, passwords,
                 criteria, found, clock, sidecar, exit_code>>

\* A scan's client.fetch_email_ids(folder, s_date, e_date) (lines 462, 491).
Search ==
  /\ bpc = "scan"
  /\ criteria' = search_criteria(s_date, e_date)
  /\ found' = uid_search(search_criteria(s_date, e_date))
  /\ bpc' = "engine"
  /\ UNCHANGED <<erest, mpc, status, dopts, potential_servers, connection_attempts,
                 server_address, connection, attempted, passwords,
                 final_subfolder_path, clock, sidecar, exit_code>>

\* The engine, by the way it ends (its steps are Next's): the summary is
\* reached with status Completed or Cancelled, or an exception reaches the
\* except clause of line 724, after which main() returns.
RunEngine ==
  /\ bpc = "engine"
  /\ \E out \in {"Completed", "Cancelled", "exception"} :
       IF out = "exception"
         THEN /\ bpc' = "exited"
              /\ exit_code' = 0
              /\ UNCHANGED <<mpc, status>>
         ELSE /\ status' = out
              /\ mpc' = "done"
              /\ bpc' = "zip"
              /\ UNCHANGED exit_code
  /\ UNCHANGED <<erest, dopts, potential_servers, connection_attempts,
                 server_address, connection, attempted, passwords,
                 final_subfolder_path, criteria, found, clock, sidecar>>

\* Lines 679-682: batch mode answers 'n' without asking, and with 'n' main()
\* is over; otherwise timed_input starts its clock (line 24).
ZipChoice ==
  /\ bpc = "zip"
  /\ IF batch
       THEN /\ bpc' = "exited"
            /\ exit_code' = 0
       ELSE /\ bpc' = "zip_prompt"
            /\ UNCHANGED exit_code
  /\ clock' = 0
  /\ UNCHANGED <<erest, mpc, status, dopts, potential_servers, connection_attempts,
                 server_address, connection, attempted, passwords,
                 final_subfolder_path, criteria, found, sidecar>>

\* A second passes with no key in the buffer: the loop of lines 27-34 turns
\* again.  (The clock stops counting one past the timeout.)
Tick ==
  /\ bpc = "zip_prompt"
  /\ clock <= TIMEOUT
  /\ clock' = clock + 1
  /\ UNCHANGED <<erest, mpc, status, dopts, bpc, potential_servers, connection_attempts,
                 server_address, connection, attempted, passwords,
                 final_subfolder_path, criteria, found, sidecar, exit_code>>

\* The sidecar's lines about the connection (lines 713-717).
sidecar_lines(addr, attempts) ==
  <<<<"Server Connected", addr>>>>
  \o (IF attempts # <<>> THEN <<<<"Failed Connection Attempts">>>> ELSE <<>>)
  \o [i \in 1..Len(attempts) |-> <<"-", attempts[i][1], attempts[i][2]>>]

\* A key is in the buffer: timed_input returns, and on 'y' lines 683-720
\* write the archive and the sidecar.
KeyPress ==
  /\ bpc = "zip_prompt"
  /\ \E key \in {"y", "n", "enter"} :
       sidecar' = IF timed_input(key, "y") = "y"
                    THEN sidecar_lines(server_address, connection_attempts)
                    ELSE sidecar
  /\ bpc' = "exited"
  /\ exit_code' = 0
  /\ UNCHANGED <<erest, mpc, status, dopts, potential_servers, connection_attempts,
                 server_address, connection, attempted, passwords,
                 final_subfolder_path, criteria, found, clock>>

DriverInit ==
  /\ EngineInit
  /\ max_retries = 0
  /\ server \in {NoHost, OtherHost}
  /\ in_table \in BOOLEAN
  /\ tb_config \in {NoHost, MailDomain, OtherHost}
  /\ s_date \in {NoDate} \cup Dates
  /\ e_date \in {NoDate} \cup Dates
  /\ today \in RunDays
  /\ final_subfolder_path = <<>>
  /\ bpc = "connect"
  /\ potential_servers = <<>>
  /\ connection_attempts = <<>>
  /\ server_address = NoHost
  /\ connection = "none"
  /\ attempted = <<>>
  /\ passwords = 0
  /\ criteria = <<>>
  /\ found = {}
  /\ clock = 0
  /\ sidecar = <<>>
  /\ exit_code = -1
  /\ ListerIdle
  /\ SessionsIdle
  /\ ScanIdle
  /\ TaskIdle
  /\ LocksIdle

DriverNext ==
  \/ BootConnect
  \/ BootTry
  \/ BootFail
  \/ BootPassword
  \/ MakeRunDir
  \/ Search
  \/ RunEngine
  \/ ZipChoice
  \/ Tick
  \/ KeyPress

Driver == DriverInit /\ [][DriverNext]_vars

\* ============================================================== folders ====
\* list_folders and what main() and the tasks do with its result.

MaxList == 2

\* The name part of the LIST response lines, each of the form
\* (flags) "delimiter" name, as the servers may send them.
RawNames ==
  { <<"I", "N", "B", "O", "X">>,
    <<"\"", "S", "e", "n", "t", "\"">>,
    <<"\"", "I", "N", "B", "O", "X", ".", "S", "e", "n", "t", "\"">>,
    <<"\"", "S", "p", "a", "m", "\"">>,
    <<"\"", "J", "U", "N", "K", "\"">>,
    <<"\"", "b", "u", "l", "k", "\"">>,
    <<"\"", "S", "p", "a", "m", " ", "T", "r", "a", "s", "h", "\"">>,
    <<"\"", "A", "l", "l", " ", "M", "a", "i", "l", "\"">>,
    <<"\"", "T", "o", "d", "o", "s", " ", "o", "s", " ", "e", "-", "m", "a", "i", "l", "s", "\"">>,
    <<"\"", "I", "n", "b", "o", "x", ".", "C", "a", "f", "é", " ", "1", "\"">>,
    <<"\"", "I", "n", "b", "o", "x", "\"">>,
    <<"\"", "R", "\\", "\"", "S", "\"">> }

Contains(str, sub) ==
  \E i \in 1..(Len(str) - Len(sub) + 1) : SubSeq(str, i, i + Len(sub) - 1) = sub

\* name.replace('\\"', '"').replace('\\\\', '\\')
RECURSIVE unescape(_)
unescape(str) ==
  IF Len(str) < 2 THEN str
  ELSE IF str[1] = "\\" /\ str[2] \in {"\"", "\\"}
    THEN <<str[2]>> \o unescape(SubSeq(str, 3, Len(str)))
    ELSE <<str[1]>> \o unescape(Tail(str))

\* Lines 146-150: the name without its quotes.
unquote(name) ==
  IF Len(name) >= 2 /\ name[1] = "\"" /\ name[Len(name)] = "\""
    THEN unescape(SubSeq(name, 2, Len(name) - 1))
    ELSE name

\* The filter of lines 153-159 without the exception for trash.
kept_no_trash(name) ==
  LET lower_name == lower(name) IN
    /\ ~(\/ Contains(lower_name, <<"s", "p", "a", "m">>)
         \/ Contains(lower_name, <<"j", "u", "n", "k">>)
         \/ Contains(lower_name, <<"b", "u", "l", "k">>))
    /\ ~(\/ Contains(lower_name, <<"t", "o", "d", "o", "s", " ", "o", "s", " ", "e", "-", "m", "a", "i", "l", "s">>)
         \/ Contains(lower_name, <<"a", "l", "l", " ", "m", "a", "i", "l">>))

\* Lines 153-159: the folder is not skipped.
kept(name) ==
  LET lower_name == lower(name) IN
    /\ ~(/\ \/ Contains(lower_name, <<"s", "p", "a", "m">>)
            \/ Contains(lower_name, <<"j", "u", "n", "k">>)
            \/ Contains(lower_name, <<"b", "u", "l", "k">>)
         /\ ~Contains(lower_name, <<"t", "r", "a", "s", "h">>))
    /\ ~(\/ Contains(lower_name, <<"t", "o", "d", "o", "s", " ", "o", "s", " ", "e", "-", "m", "a", "i", "l", "s">>)
         \/ Contains(lower_name, <<"a", "l", "l", " ", "m", "a", "i", "l">>))

\* list_folders on the data of connection.list().
list_folders(data) == SelectSeq([i \in 1..Len(data) |-> unquote(data[i])], kept)

\* client.list_folders(), line 303.
ListFolders ==
  /\ lpc = "list"
  /\ folders' = list_folders(listing)
  /\ lpc' = "split"
  /\ UNCHANGED <<listing, inbox_folder, others, segments>>

\* Lines 306-313, one folder at a time: the folder named inbox in any case
\* becomes inbox_folder, every other one is appended to other_folders.
RECURSIVE split_folders(_, _, _)
split_folders(fs, inbox, rest) ==
  IF fs = <<>> THEN <<inbox, rest>>
  ELSE IF lower(Head(fs)) = <<"i", "n", "b", "o", "x">>
    THEN split_folders(Tail(fs), Head(fs), rest)
    ELSE split_folders(Tail(fs), inbox, Append(rest, Head(fs)))

SplitFolders ==
  /\ lpc = "split"
  /\ inbox_folder' = split_folders(folders, <<>>, <<>>)[1]
  /\ others' = split_folders(folders, <<>>, <<>>)[2]
  /\ lpc' = "segment"
  /\ UNCHANGED <<listing, folders, segments>>

\* Lines 116-124 of a task of each folder: its segment on disk.
TaskSegments ==
  /\ lpc = "segment"
  /\ segments' = [i \in 1..Len(folders) |-> sanitize_filename(display_folder(folders[i]))]
  /\ lpc' = "done"
  /\ UNCHANGED <<listing, folders, inbox_folder, others>>

ListerInit ==
  /\ EngineInit
  /\ max_retries = 0
  /\ batch = FALSE
  /\ DriverIdle
  /\ SessionsIdle
  /\ ScanIdle
  /\ TaskIdle
  /\ LocksIdle
  /\ lpc = "list"
  /\ listing \in UNION {[1..n -> RawNames] : n \in 0..MaxList}
  /\ folders = <<>>
  /\ inbox_folder = <<>>
  /\ others = <<>>
  /\ segments = <<>>

ListerNext ==
  \/ /\ ListFolders
     /\ UNCHANGED <<max_retries, batch, mvars, cvars, shvars, wvars, svars, hvars>>
     /\ UNCHANGED <<bvars, tvars, scvars, kvars, lockvars>>
  \/ /\ SplitFolders
     /\ UNCHANGED <<max_retries, batch, mvars, cvars, shvars, wvars, svars, hvars>>
     /\ UNCHANGED <<bvars, tvars, scvars, kvars, lockvars>>
  \/ /\ TaskSegments
     /\ UNCHANGED <<max_retries, batch, mvars, cvars, shvars, wvars, svars, hvars>>
     /\ UNCHANGED <<bvars, tvars, scvars, kvars, lockvars>>

Lister == ListerInit /\ [][ListerNext]_vars

\* ============================================================= sessions ====
\* Which thread works on which client object: thread_local.client of the
\* pool threads (lines 36-66, 138-146), scan_client of background_scan
\* (lines 479-517) and c of the inbox scan in the main thread (lines 463-466).

\* A name of the module that every thread shares.
module_global(th) == 1

\* threading.local(): an attribute of thread_local belongs to the thread that
\* reads or writes it.
thread_local(th) == th

\* A thread starts an operation (connect, noop, select, fetch, close) on the
\* client object id.
begin_op(th, id) ==
  /\ in_op[th] = 0
  /\ in_op' = [in_op EXCEPT ![th] = id]
  /\ touched' = [touched EXCEPT ![id] = @ \cup {th}]

\* A pool thread in download_email_task: get_thread_client creates the
\* thread's client when the thread has none (lines 43-45); the task's next
\* operation on it starts.
TaskOpBegin(w) ==
  LET k == thread_local(w) IN
    IF tl_client[k] = 0
      THEN /\ clients_made < MaxClients
           /\ clients_made' = clients_made + 1
           /\ tl_client' = [tl_client EXCEPT ![k] = clients_made + 1]
           /\ begin_op(w, clients_made + 1)
           /\ UNCHANGED <<scan_client, inbox_client>>
      ELSE /\ begin_op(w, tl_client[k])
           /\ UNCHANGED <<tl_client, clients_made, scan_client, inbox_client>>

\* The operation returns or raises.
OpEnd(th) ==
  /\ in_op[th] # 0
  /\ in_op' = [in_op EXCEPT ![th] = 0]
  /\ UNCHANGED <<tl_client, scan_client, inbox_client, clients_made, touched>>

\* A pool thread ends (the executor is shut down, or the with-block of a
\* retry round ends); its thread-local attributes end with it, and a later
\* round's thread starts without a client.
ThreadExit(w) ==
  /\ in_op[w] = 0
  /\ tl_client[thread_local(w)] # 0
  /\ tl_client' = [tl_client EXCEPT ![thread_local(w)] = 0]
  /\ UNCHANGED <<scan_client, inbox_client, clients_made, in_op, touched>>

\* background_scan: scan_client = AutoIMAPClient(...) once (line 479), then
\* its connect, select_folder, fetch_email_ids and close.
ScanOpBegin ==
  IF scan_client = 0
    THEN /\ clients_made < MaxClients
         /\ clients_made' = clients_made + 1
         /\ scan_client' = clients_made + 1
         /\ begin_op(ScanThread, clients_made + 1)
         /\ UNCHANGED <<tl_client, inbox_client>>
    ELSE /\ begin_op(ScanThread, scan_client)
         /\ UNCHANGED <<tl_client, clients_made, scan_client, inbox_client>>

\* The inbox scan of the main thread: c = AutoIMAPClient(...) (line 463),
\* then its connect, fetch_email_ids and close.
InboxOpBegin ==
  IF inbox_client = 0
    THEN /\ clients_made < MaxClients
         /\ clients_made' = clients_made + 1
         /\ inbox_client' = clients_made + 1
         /\ begin_op(MainThread, clients_made + 1)
         /\ UNCHANGED <<tl_client, scan_client>>
    ELSE /\ begin_op(MainThread, inbox_client)
         /\ UNCHANGED <<tl_client, clients_made, scan_client, inbox_client>>

SessionsInit ==
  /\ EngineInit
  /\ max_retries = 0
  /\ batch = FALSE
  /\ DriverIdle
  /\ ListerIdle
  /\ SessionsIdle
  /\ ScanIdle
  /\ TaskIdle
  /\ LocksIdle

SessionsNext ==
  \/ /\ \E w \in Workers : TaskOpBegin(w)
     /\ UNCHANGED <<max_retries, batch, mvars, cvars, shvars, wvars, svars, hvars, bvars, lvars, scvars, kvars, lockvars>>
  \/ /\ \E th \in ThreadIds : OpEnd(th)
     /\ UNCHANGED <<max_retries, batch, mvars, cvars, shvars, wvars, svars, hvars, bvars, lvars, scvars, kvars, lockvars>>
  \/ /\ \E w \in Workers : ThreadExit(w)
     /\ UNCHANGED <<max_retries, batch, mvars, cvars, shvars, wvars, svars, hvars, bvars, lvars, scvars, kvars, lockvars>>
  \/ /\ ScanOpBegin
     /\ UNCHANGED <<max_retries, batch, mvars, cvars, shvars, wvars, svars, hvars, bvars, lvars, scvars, kvars, lockvars>>
  \/ /\ InboxOpBegin
     /\ UNCHANGED <<max_retries, batch, mvars, cvars, shvars, wvars, svars, hvars, bvars, lvars, scvars, kvars, lockvars>>

Sessions == SessionsInit /\ [][SessionsNext]_vars

\* ================================================================ scan ====
\* background_scan (lines 477-518) over several folders, each of which the
\* server may refuse to select, fail to search, or answer.

MaxScanFolders == 3
ScanUids == 2

\* What one folder's turn can come to: select_folder returns False (line 493),
\* fetch_email_ids returns [] (its select or its search failed), something
\* raises inside the try of line 486, or the search gives the folder's UIDs.
FolderOutcomes == {"select_failed", "search_failed", "raised", "ok"}

\* A scan that gives up at the first exception.
next_folder_abort(f, o) == IF o = "raised" THEN MaxScanFolders + 1 ELSE f + 1

\* The folder loop after a folder's turn: continue (line 495), the else of
\* line 512 and the except of line 514 all go on with the next folder.
next_folder(f, o) == f + 1

\* scan_client.connect (lines 479-482).
BgConnect ==
  /\ sc_pc = "connect"
  /\ \E ok \in BOOLEAN : sc_pc' = IF ok THEN "folder" ELSE "done"
  /\ UNCHANGED <<sc_folder, sc_ids, sc_total, sc_submitted, sc_seen>>

\* One turn of the loop of line 484 up to the count of lines 504-506.
BgFolder ==
  /\ sc_pc = "folder"
  /\ IF sc_folder > MaxScanFolders \/ shutdown_event
       THEN /\ sc_pc' = "close"
            /\ UNCHANGED <<sc_folder, sc_ids, sc_total, sc_submitted, sc_seen>>
       ELSE \E o \in FolderOutcomes :
              /\ sc_seen' = Append(sc_seen, o)
              /\ IF o = "ok"
                   THEN /\ sc_ids' = SeqOfRange(1, ScanUids)
                        /\ sc_total' = sc_total + ScanUids
                        /\ sc_pc' = "submit"
                        /\ UNCHANGED sc_folder
                   ELSE /\ sc_folder' = next_folder(sc_folder, o)
                        /\ UNCHANGED <<sc_pc, sc_ids, sc_total>>
              /\ UNCHANGED sc_submitted

\* for eid in ids: submit_download(folder, eid)  (lines 508-510)
BgSubmit ==
  /\ sc_pc = "submit"
  /\ sc_submitted' = IF shutdown_event THEN sc_submitted
                     ELSE Append(sc_submitted, <<sc_folder, Head(sc_ids)>>)
  /\ sc_ids' = Tail(sc_ids)
  /\ IF Tail(sc_ids) = <<>>
       THEN /\ sc_pc' = "folder"
            /\ sc_folder' = next_folder(sc_folder, "ok")
       ELSE UNCHANGED <<sc_pc, sc_folder>>
  /\ UNCHANGED <<sc_total, sc_seen>>

\* scan_client.close() and the end of background_scan (lines 517-518).
BgClose ==
  /\ sc_pc = "close"
  /\ sc_pc' = "done"
  /\ UNCHANGED <<sc_folder, sc_ids, sc_total, sc_submitted, sc_seen>>

ScanInit ==
  /\ EngineInit
  /\ max_retries = 0
  /\ batch = FALSE
  /\ DriverIdle
  /\ ListerIdle
  /\ SessionsIdle
  /\ TaskIdle
  /\ LocksIdle
  /\ sc_pc = "connect"
  /\ sc_folder = 1
  /\ sc_ids = <<>>
  /\ sc_total = 0
  /\ sc_submitted = <<>>
  /\ sc_seen = <<>>

ScanNext ==
  \/ /\ BgConnect
     /\ UNCHANGED <<max_retries, batch, mvars, cvars, shvars, wvars, svars, hvars, bvars, lvars, tvars, kvars, lockvars>>
  \/ /\ BgFolder
     /\ UNCHANGED <<max_retries, batch, mvars, cvars, shvars, wvars, svars, hvars, bvars, lvars, tvars, kvars, lockvars>>
  \/ /\ BgSubmit
     /\ UNCHANGED <<max_retries, batch, mvars, cvars, shvars, wvars, svars, hvars, bvars, lvars, tvars, kvars, lockvars>>
  \/ /\ BgClose
     /\ UNCHANGED <<max_retries, batch, mvars, cvars, shvars, wvars, svars, hvars, bvars, lvars, tvars, kvars, lockvars>>

Scan == ScanInit /\ [][ScanNext]_vars

\* ================================================================ task ====
\* download_email_task on one pool thread, one IMAP operation at a time
\* (lines 73-146), with the mailbox the server has selected on the session.

MaxTaskRuns == 3
NumTaskFolders == 2
TaskFolders == 1..NumTaskFolders

\* A select that keeps a mailbox that is selected already.
select_folder_cached(sel, folder, ok) ==
  IF ~ok THEN 0 ELSE IF sel # 0 THEN sel ELSE folder

\* select_folder (imap_client.py 169-185) as the session sees it: SELECT
\* makes the folder the selected mailbox; when it fails none is selected.
select_folder(sel, folder, ok) == IF ok THEN folder ELSE 0

\* The pool thread takes a task of some folder.
KStart ==
  /\ k_pc = "idle"
  /\ k_n < MaxTaskRuns
  /\ k_n' = k_n + 1
  /\ \E f \in TaskFolders : k_folder' = f
  /\ k_re' = FALSE
  /\ k_pc' = "client"
  /\ UNCHANGED <<k_conn, k_sel, k_fetch>>

\* get_thread_client (line 78): a connection made now has no mailbox
\* selected; one that answered noop keeps the mailbox of the task before.
KClient ==
  /\ k_pc = "client"
  /\ \E g \in get_thread_client(k_conn) :
       /\ k_conn' = IF g.r = "raise" THEN except_clause(g.conn) ELSE g.conn
       /\ k_sel' = IF g.ops = <<"noop">> THEN k_sel ELSE 0
       /\ k_pc' = IF g.r = "ok" THEN "select" ELSE "idle"
  /\ UNCHANGED <<k_folder, k_n, k_re, k_fetch>>

\* client.select_folder(folder) (line 86).
KSelect ==
  /\ k_pc = "select"
  /\ \E ok \in (IF k_conn = "open" THEN BOOLEAN ELSE {FALSE}) :
       /\ k_sel' = select_folder(k_sel, k_folder, ok)
       /\ k_pc' = IF ok THEN "msgid" ELSE "reselect"
  /\ UNCHANGED <<k_conn, k_folder, k_n, k_re, k_fetch>>

\* The reconnect of lines 88-92: close() inside try/except, then connect.
KReconnect ==
  /\ k_pc = "reselect"
  /\ \E c \in connect("stale") :
       /\ k_conn' = IF c.r = "raise" THEN except_clause(c.conn) ELSE c.conn
       /\ k_pc' = IF c.r = "ok" THEN "select2" ELSE "idle"
  /\ k_sel' = 0
  /\ k_re' = TRUE
  /\ UNCHANGED <<k_folder, k_n, k_fetch>>

\* The second select_folder (lines 93-94).
KSelect2 ==
  /\ k_pc = "select2"
  /\ \E ok \in BOOLEAN :
       /\ k_sel' = select_folder(k_sel, k_folder, ok)
       /\ k_pc' = IF ok THEN "msgid" ELSE "idle"
  /\ UNCHANGED <<k_conn, k_folder, k_n, k_re, k_fetch>>

\* client.fetch_message_id(email_id) (line 100) and the test of lines 101-106.
KMsgId ==
  /\ k_pc = "msgid"
  /\ k_fetch' = k_fetch \cup {<<k_folder, k_sel, k_re>>}
  /\ \E skip \in BOOLEAN : k_pc' = IF skip THEN "idle" ELSE "content"
  /\ UNCHANGED <<k_conn, k_sel, k_folder, k_n, k_re>>

\* client.fetch_email_content(email_id) (line 112) and the rest of the task;
\* an exception of the write goes to the except clause.
KContent ==
  /\ k_pc = "content"
  /\ k_fetch' = k_fetch \cup {<<k_folder, k_sel, k_re>>}
  /\ \E raised \in BOOLEAN :
       /\ k_conn' = IF raised THEN except_clause(k_conn) ELSE k_conn
       /\ k_sel' = IF raised THEN 0 ELSE k_sel
  /\ k_pc' = "idle"
  /\ UNCHANGED <<k_folder, k_n, k_re>>

TaskInit ==
  /\ EngineInit
  /\ max_retries = 0
  /\ batch = FALSE
  /\ DriverIdle
  /\ ListerIdle
  /\ SessionsIdle
  /\ ScanIdle
  /\ TaskIdle
  /\ LocksIdle

TaskNext ==
  \/ /\ KStart
     /\ UNCHANGED <<max_retries, batch, mvars, cvars, shvars, wvars, svars, hvars, bvars, lvars, tvars, scvars, lockvars>>
  \/ /\ KClient
     /\ UNCHANGED <<max_retries, batch, mvars, cvars, shvars, wvars, svars, hvars, bvars, lvars, tvars, scvars, lockvars>>
  \/ /\ KSelect
     /\ UNCHANGED <<max_retries, batch, mvars, cvars, shvars, wvars, svars, hvars, bvars, lvars, tvars, scvars, lockvars>>
  \/ /\ KReconnect
     /\ UNCHANGED <<max_retries, batch, mvars, cvars, shvars, wvars, svars, hvars, bvars, lvars, tvars, scvars, lockvars>>
  \/ /\ KSelect2
     /\ UNCHANGED <<max_retries, batch, mvars, cvars, shvars, wvars, svars, hvars, bvars, lvars, tvars, scvars, lockvars>>
  \/ /\ KMsgId
     /\ UNCHANGED <<max_retries, batch, mvars, cvars, shvars, wvars, svars, hvars, bvars, lvars, tvars, scvars, lockvars>>
  \/ /\ KContent
     /\ UNCHANGED <<max_retries, batch, mvars, cvars, shvars, wvars, svars, hvars, bvars, lvars, tvars, scvars, lockvars>>

TaskRun == TaskInit /\ [][TaskNext]_vars

\* =============================================================== locks ====
\* The with-blocks of the download phase.  A routine is the sequence of lock
\* operations one call makes; a thread runs its routine one operation at a
\* time, and an acquire waits until the lock is free (threading.Lock is not
\* reentrant).

\* `with l:' around a body.
with_lock(l, body) == <<<<"acquire", l>>>> \o body \o <<<<"release", l>>>>

\* A callback that takes folder_stats_lock first.
callback_locks_swapped ==
  { with_lock("count_lock", <<>>),
    with_lock("folder_stats_lock", with_lock("count_lock", <<>>)) }

\* download_done_callback (lines 362-403): count_lock, left at once when the
\* future is handled already, otherwise folder_stats_lock inside it, in the
\* try and in the except branch alike.
callback_locks ==
  { with_lock("count_lock", <<>>),
    with_lock("count_lock", with_lock("folder_stats_lock", <<>>)) }

\* download_email_task (lines 99-106): seen_lock around the test and the
\* insert, when the task gets that far and the message has a Message-ID.
download_email_task_locks == { <<>>, with_lock("seen_lock", <<>>) }

\* download_wrapper (lines 431-444): active_threads_lock before the task and
\* again in the finally clause.
wrapper_locks ==
  { with_lock("active_threads_lock", <<>>) \o t \o with_lock("active_threads_lock", <<>>) :
      t \in download_email_task_locks }

\* update_speed (lines 354-360).
update_speed == with_lock("active_threads_lock", <<>>)

\* pbar.total under count_lock: the scanner's lines 503-506, and the status
\* line of the wait loop (lines 544-547).
update_total == with_lock("count_lock", <<>>)

\* A pool thread runs the wrapper and then, unless the callback was not yet
\* added when the future finished, the callback.
WorkerRuns(t) ==
  /\ t[1] = "worker"
  /\ lk_prog[t] = <<>>
  /\ \E w \in wrapper_locks, c \in callback_locks \cup {<<>>} :
       lk_prog' = [lk_prog EXCEPT ![t] = w \o c]
  /\ UNCHANGED <<lk_pc, lk_held>>

\* The scanner adds to the total, or submit_download runs the callback of a
\* future that is finished already in the scanner's thread (line 453).
ScannerRuns ==
  /\ lk_prog[Scanner] = <<>>
  /\ \E r \in {update_total} \cup callback_locks :
       lk_prog' = [lk_prog EXCEPT ![Scanner] = r]
  /\ UNCHANGED <<lk_pc, lk_held>>

\* The main thread: update_speed or the status line of the wait loop, or the
\* callback of a finished future while it submits the INBOX tasks.
MainRuns ==
  /\ lk_prog[Orchestrator] = <<>>
  /\ \E r \in {update_speed, update_total} \cup callback_locks :
       lk_prog' = [lk_prog EXCEPT ![Orchestrator] = r]
  /\ UNCHANGED <<lk_pc, lk_held>>

\* The operation thread t is at.
LockOp(t) == lk_prog[t][lk_pc[t]]

\* Thread t has run the operation it was at.
LockAdvance(t) ==
  IF lk_pc[t] = Len(lk_prog[t])
  THEN /\ lk_prog' = [lk_prog EXCEPT ![t] = <<>>]
       /\ lk_pc' = [lk_pc EXCEPT ![t] = 1]
  ELSE /\ lk_pc' = [lk_pc EXCEPT ![t] = lk_pc[t] + 1]
       /\ UNCHANGED lk_prog

\* Entering a with-block: the lock must be free.
LockAcquire(t) ==
  /\ lk_prog[t] # <<>>
  /\ LockOp(t)[1] = "acquire"
  /\ lk_held[LockOp(t)[2]] = Nobody
  /\ lk_held' = [lk_held EXCEPT ![LockOp(t)[2]] = t]
  /\ LockAdvance(t)

\* Leaving a with-block, by its end, a return or an exception.
LockRelease(t) ==
  /\ lk_prog[t] # <<>>
  /\ LockOp(t)[1] = "release"
  /\ lk_held' = [lk_held EXCEPT ![LockOp(t)[2]] = Nobody]
  /\ LockAdvance(t)

\* Thread t runs the lock operation it is at.
LockStep(t) ==
  /\ LockAcquire(t) \/ LockRelease(t)
  /\ UNCHANGED <<max_retries, batch, mvars, cvars, shvars, wvars, svars, hvars, bvars, lvars, tvars, scvars, kvars>>

LocksInit ==
  /\ EngineInit
  /\ max_retries = 0
  /\ batch = FALSE
  /\ DriverIdle
  /\ ListerIdle
  /\ SessionsIdle
  /\ ScanIdle
  /\ TaskIdle
  /\ LocksIdle

LocksNext ==
  \/ /\ \E t \in LockThreads : WorkerRuns(t)
     /\ UNCHANGED <<max_retries, batch, mvars, cvars, shvars, wvars, svars, hvars, bvars, lvars, tvars, scvars, kvars>>
  \/ /\ ScannerRuns
     /\ UNCHANGED <<max_retries, batch, mvars, cvars, shvars, wvars, svars, hvars, bvars, lvars, tvars, scvars, kvars>>
  \/ /\ MainRuns
     /\ UNCHANGED <<max_retries, batch, mvars, cvars, shvars, wvars, svars, hvars, bvars, lvars, tvars, scvars, kvars>>
  \/ /\ \E t \in LockThreads : LockAcquire(t)
     /\ UNCHANGED <<max_retries, batch, mvars, cvars, shvars, wvars, svars, hvars, bvars, lvars, tvars, scvars, kvars>>
  \/ /\ \E t \in LockThreads : LockRelease(t)
     /\ UNCHANGED <<max_retries, batch, mvars, cvars, shvars, wvars, svars, hvars, bvars, lvars, tvars, scvars, kvars>>

\* A thread that can run its next lock operation eventually runs it.
FairLocks ==
  /\ LocksInit
  /\ [][LocksNext]_vars
  /\ \A t \in LockThreads : WF_vars(LockStep(t))

\* ============================================================ properties ====
\* C1: at the summary, the Downloaded, Skipped, Final Errors and Remaining
\* values it reports add up to the total the scanner counted.
C1_Conservation ==
  mpc = "done" =>
    rep_downloaded + rep_skipped + rep_failed + remaining_count = total_items

\* C2 (as stated): of two tasks whose messages carry the same Message-ID at
\* most one fetches a body, and at most one writes a file.
C2_OnePerMessageId ==
  \A t1, t2 \in Tasks :
    (t1 # t2 /\ MessageIdOf(t1) = MessageIdOf(t2)) =>
      /\ ~(writes[t1] > 0 /\ writes[t2] > 0)
      /\ ~(t1 \in got_body /\ t2 \in got_body)

\* C2 (amended): of all the attempts to which fetch_message_id returned the
\* same Message-ID at most one fetches a body; an attempt that finds its ID in
\* the index ends with (True, "SKIPPED") without a fetch or a write, and an
\* attempt that does not find it has put it there when it goes on to fetch.
C2_OnePerObservedId ==
  /\ [](\A m \in 1..NumMsgIds : body_fetches[m] <= 1)
  /\ [][\A w \in Workers :
          wpc[w] = "dedup" /\ wpc'[w] # "dedup" =>
            /\ wmsg[w] \in seen_ids'
            /\ IF wmsg[w] \in seen_ids
                 THEN /\ wpc'[w] = "callback" /\ wres'[w] = "SKIPPED"
                      /\ body_fetches' = body_fetches /\ writes' = writes
                 ELSE wpc'[w] = "fetch"]_vars

\* Two tasks with one Message-ID: one has written its file, the other was skipped.
C2_Witness ==
  /\ body_fetches[1] = 1
  /\ skipped_count = 1
  /\ \E t \in Tasks : writes[t] = 1 /\ MessageIdOf(t) = 1

\* C3: the done-callback of a download future folds its task into exactly one
\* of downloaded, skipped and the failed list, once: whatever the future's
\* result (returned, raised, cancelled), and a second invocation changes nothing.
C3_ExactlyOnce ==
  \A t \in Tasks :
    /\ folds[t] <= 1
    /\ handled[t] <=> folds[t] = 1
    /\ (/\ fut[t] \in {"finished", "cancelled"}
        /\ \A w \in Pool1 : ~(wpc[w] = "callback" /\ wtask[w] = t)) => folds[t] = 1
    /\ \A r \in Successes \cup Failures \cup {Cancelled} :
         LET d == download_done_callback(Counters, t, r) IN
           IF handled[t]
             THEN d = Counters
             ELSE /\ FoldsOf(d) = FoldsOf(Counters) + 1
                  /\ d.downloaded >= downloaded_count
                  /\ d.skipped >= skipped_count
                  /\ \A u \in Tasks : d.failed[u] >= failed_tasks[u]
                  /\ d.handled[t]

\* A cancelled future folded as a failure next to a task folded as downloaded.
C3_Witness ==
  \E t1, t2 \in Tasks :
    /\ fut[t1] = "cancelled" /\ folds[t1] = 1 /\ cls[t1] = "failed"
    /\ fut[t2] = "finished" /\ folds[t2] = 1 /\ cls[t2] = "downloaded"

\* C4: with max_retries >= 1, a task whose body fetch came back empty in the
\* first pass and that succeeded in the first retry round is out of the
\* failed list and counted as downloaded when the run ends.
C4_Recovered ==
  (mpc = "done" /\ max_retries >= 1) =>
    /\ \A t \in first_empty \cap retry1_ok :
         failed_tasks[t] = 0 /\ cls[t] = "downloaded"
    /\ downloaded_count >= Cardinality(first_empty \cap retry1_ok)

\* The recovered task has its file and the failed list is empty.
C4_Witness ==
  /\ mpc = "done"
  /\ max_retries >= 1
  /\ ListLen(failed_tasks) = 0
  /\ \E t \in first_empty \cap retry1_ok : writes[t] = 1 /\ cls[t] = "downloaded"

\* C5: a task whose body fetch came back empty in the first pass, that was
\* attempted again in the last retry round and never got a body on any
\* attempt ends a Completed run in the failed list, not counted as downloaded.
C5_StaysFailed ==
  (mpc = "done" /\ status = "Completed") =>
    \A t \in first_empty \ got_body :
      round_attempted[t] > 0 => failed_tasks[t] > 0 /\ cls[t] # "downloaded"

\* C6: a retry round attempts exactly the tasks that were in the failed list
\* when it started, none of them a task that succeeded in the round before,
\* and the failed list it leaves (line 650) is within the one it started from.
C6_RetryRounds ==
  /\ [](mpc = "acct_648" => round_attempted = round_before)
  /\ [](\A t \in Tasks : round_attempted[t] <= round_before[t])
  /\ [](\A t \in Tasks : round_attempted[t] > 0 => t \notin prev_succeeded)
  /\ [][(mpc = "acct_650" /\ mpc' = "acct_653") =>
          \A t \in Tasks : failed_tasks'[t] <= round_before[t]]_vars

\* The second round ran on the one task the first round left failed.
C6_Witness ==
  /\ mpc = "acct_648"
  /\ prev_succeeded # {}
  /\ ListLen(round_attempted) = 1
  /\ ListLen(new_failed) = 1

\* C7: in the summary of a cancelled run no task that was queued or in flight
\* when the signal was set is in the failed list; they are all in Remaining.
C7_OutstandingRemaining ==
  (mpc = "done" /\ status = "Cancelled") =>
    /\ \A t \in outstanding : failed_tasks[t] = 0
    /\ remaining_count >= Cardinality(outstanding)

\* C8: in a cancelled run, once the summary is computed no counter changes
\* and no file is written.
C8_SummaryFinal ==
  [][(status = "Cancelled" /\ mpc \in {"emit_downloaded", "emit_skipped", "emit_failed", "done"}) =>
       /\ downloaded_count' = downloaded_count
       /\ skipped_count' = skipped_count
       /\ failed_tasks' = failed_tasks
       /\ writes' = writes]_vars

\* C9: once the cancel signal is set the orchestrator reaches the summary
\* with status Cancelled, on its own steps alone; no retry round runs and no
\* task is submitted to the download pool after the signal.
C9_Cancel ==
  /\ shutdown_event ~> (mpc = "done" /\ status = "Cancelled")
  /\ [](shutdown_event =>
          mpc \notin {"retry_wait", "acct_648", "acct_650", "acct_653", "prompt"})
  /\ [][shutdown_event =>
          \A t \in Tasks : fut'[t] = "queued" => fut[t] = "queued"]_vars

\* C10: in a run that is not cancelled the orchestrator reaches the summary,
\* and every task submitted to the pool gets its outcome.
C10_Progress ==
  /\ <>(shutdown_event \/ mpc = "done")
  /\ \A t \in Tasks : (fut[t] # "none") ~> (shutdown_event \/ cls[t] # "none")

\* The hosts connection_attempts records, in order.
FailedHosts == [i \in 1..Len(connection_attempts) |-> connection_attempts[i][1]]

\* C11: every candidate that connect() tried and that did not log in is
\* recorded in connection_attempts as (host, error string), in the order
\* tried: the record holds all the candidates tried, or all but the last one
\* when the last one logged in and is pinned; and connect() returns False
\* only with every candidate tried and recorded.
C11_FailuresRecorded ==
  /\ \/ FailedHosts = attempted
     \/ /\ attempted # <<>>
        /\ FailedHosts = SubSeq(attempted, 1, Len(attempted) - 1)
        /\ server_address = attempted[Len(attempted)]
  /\ bpc = "password" => FailedHosts = potential_servers

\* The candidates _guess_server is to produce for the domain.
C12_Order ==
  LET k == IF in_table THEN 1 ELSE 0
      ps == potential_servers
  IN /\ Len(ps) >= k + 2
     /\ in_table => ps[1] = Mapped
     /\ ps[k + 1] = ImapDomain
     /\ ps[k + 2] = MailDomain
     /\ IF tb_config # NoHost /\ tb_config \notin {ps[i] : i \in 1..(k + 2)}
          THEN Len(ps) = k + 3 /\ ps[k + 3] = tb_config
          ELSE Len(ps) = k + 2

\* C12: without an explicit server the candidates are the provider's mapped
\* host (if the domain is in the table), imap.<domain>, mail.<domain> and
\* the Thunderbird host (if found and not listed already); they are tried
\* in that order; the first to log in is pinned as server_address, and no
\* candidate is tried after it.
C12_DiscoveryOrder ==
  /\ [](server = NoHost /\ bpc # "connect" => C12_Order)
  /\ [](attempted = SubSeq(potential_servers, 1, Len(attempted)))
  /\ [](server_address # NoHost =>
          /\ attempted # <<>>
          /\ server_address = attempted[Len(attempted)]
          /\ Len(connection_attempts) = Len(attempted) - 1)
  /\ [][server_address # NoHost => attempted' = attempted]_vars

\* C12 witness: discovery for a domain in the table whose Thunderbird host
\* is new; three candidates failed and the fourth is pinned.
C12_Witness ==
  /\ server = NoHost
  /\ in_table
  /\ attempted = <<Mapped, ImapDomain, MailDomain, OtherHost>>
  /\ server_address = OtherHost
  /\ Len(connection_attempts) = 3

\* <run-dir>/<sanitized-folder>/email_<sanitized-folder>_<uid>.eml for the
\* folders of this mailbox, written out: "INBOX", and "A_1" for "Inbox.A 1".
SafeFolder(f) ==
  IF f = INBOX THEN <<"I", "N", "B", "O", "X">> ELSE <<"A", "_", Digits[f + 1]>>
ExpectedPath(t) ==
  <<final_subfolder_path, SafeFolder(t[1]),
    <<"email_">> \o SafeFolder(t[1]) \o <<"_", Digits[t[2] + 1], ".eml">>>>

C14_ConnectionFailed ==
  \A w \in Workers :
    wpc[w] = "session" =>
      \A g \in get_thread_client(wconn[w]) :
        /\ g.ops \in IF wconn[w] = "none" THEN {<<"connect">>}
                     ELSE {<<"noop">>, <<"noop", "close", "connect">>}
        /\ g.r # "ok" =>
             \A o \in after_client(g, wtask[w], shutdown_event) :
               o.r = "Connection failed" /\ o.ops = g.ops /\ o.msg = NoMsgId

PathByFolderAndUid == \A t \in Tasks : wrote_to[t] \subseteq {ExpectedPath(t)}

\* The day after.
NextDay(d) == <<d[1], d[2], d[3] + 1>>

\* C16: the path written for a task is a function of the run's inputs
\* (output dir, email address, date window) and the task's folder name and
\* UID only, so that a second run with the same inputs, here one started the
\* day after, writes every task to the same path.
C16_SamePaths ==
  final_subfolder_path # <<>> =>
    \A t \in Tasks :
      file_path(final_subfolder_path, FolderName(t[1]), t[2])
        = file_path(run_dir(s_date, e_date, NextDay(today)), FolderName(t[1]), t[2])

\* "DD-Mon-YYYY" of a date of the model, written out.
ImapDate(d) == <<d[3], IF d[2] = 1 THEN "Jan" ELSE "Feb", d[1]>>
HasKey(k) == \E i \in 1..Len(criteria) : criteria[i][1] = k

\* C17: the criteria of the search that the enqueued UIDs come from hold
\* SINCE "<start as DD-Mon-YYYY>" exactly when a start bound is set, BEFORE
\* "<end>" exactly when an end bound is set, and are ALL exactly when
\* neither is; against a server that honours them, with both bounds set
\* every message found is dated on or after start and before end.
C17_Criteria ==
  criteria # <<>> =>
    /\ HasKey("SINCE") <=> s_date # NoDate
    /\ HasKey("BEFORE") <=> e_date # NoDate
    /\ HasKey("ALL") <=> s_date = NoDate /\ e_date = NoDate
    /\ \A i \in 1..Len(criteria) :
         /\ criteria[i][1] = "SINCE" => criteria[i] = <<"SINCE", ImapDate(s_date)>>
         /\ criteria[i][1] = "BEFORE" => criteria[i] = <<"BEFORE", ImapDate(e_date)>>
         /\ criteria[i][1] = "ALL" => criteria = <<<<"ALL">>>>
    /\ s_date # NoDate /\ e_date # NoDate =>
         \A d \in found : ~DateLess(d, s_date) /\ DateLess(d, e_date)

\* C17 witness: a search from 2 January to 2 February (exclusive) has found
\* the messages of 2 January and 1 February and left out those of 1 January
\* and 2 February.
C17_Witness ==
  /\ s_date = <<2024, 1, 2>>
  /\ e_date = <<2024, 2, 2>>
  /\ criteria = <<<<"SINCE", <<2, "Jan", 2024>>>>, <<"BEFORE", <<2, "Feb", 2024>>>>>>
  /\ {<<2024, 1, 2>>, <<2024, 2, 1>>} \subseteq found
  /\ found \cap {<<2024, 1, 1>>, <<2024, 2, 2>>} = {}

\* C18: the process ends with code 0 when the run completed or was
\* cancelled, and with a code other than 0 exactly when the bootstrap failed
\* for good, that is, when it ends with no server pinned.
C18_ExitCode ==
  bpc = "exited" =>
    /\ mpc = "done" => exit_code = 0
    /\ exit_code # 0 <=> server_address = NoHost

\* C19: timed_input returns within its timeout: no prompt is still waiting
\* for a key once more than TIMEOUT seconds have passed.
C19_PromptTimeout == bpc = "zip_prompt" => clock <= TIMEOUT

\* The sidecar has line x, and line y somewhere after it.
LineAfter(x, y) ==
  \E i, j \in 1..Len(sidecar) : i < j /\ sidecar[i] = x /\ sidecar[j] = y

\* C20: a batch-mode run that reached its summary with server S pinned
\* after failed attempts (h1, e1)..(hn, en) has written a sidecar with the
\* line "Server Connected: S" and, after the line "Failed Connection
\* Attempts:", a line "- hi: ei" for every failed attempt.
C20_BatchSidecar ==
  batch /\ bpc = "exited" /\ mpc = "done" =>
    /\ <<"Server Connected", server_address>> \in Range(sidecar)
    /\ \A i \in 1..Len(connection_attempts) :
         LineAfter(<<"Failed Connection Attempts">>,
                   <<"-", connection_attempts[i][1], connection_attempts[i][2]>>)

\* The sidecar of an interactive run that answered 'y'.
InteractiveSidecar ==
  sidecar # <<>> =>
    /\ ~batch
    /\ <<"Server Connected", server_address>> \in Range(sidecar)
    /\ \A i \in 1..Len(connection_attempts) :
         LineAfter(<<"Failed Connection Attempts">>,
                   <<"-", connection_attempts[i][1], connection_attempts[i][2]>>)

\* The names of the listing that the filter is to drop.
ExcludedNames ==
  { <<"S", "p", "a", "m">>,
    <<"J", "U", "N", "K">>,
    <<"b", "u", "l", "k">>,
    <<"A", "l", "l", " ", "M", "a", "i", "l">>,
    <<"T", "o", "d", "o", "s", " ", "o", "s", " ", "e", "-", "m", "a", "i", "l", "s">> }

\* The folder name a line of the listing carries.
ListedName(raw) ==
  IF raw = <<"\"", "R", "\\", "\"", "S", "\"">> THEN <<"R", "\"", "S">>
  ELSE IF raw[1] = "\"" THEN SubSeq(raw, 2, Len(raw) - 1)
  ELSE raw

AsciiSafe ==
  Range(SubSeq(LowerAlphabet, 1, 26)) \cup Range(SubSeq(UpperAlphabet, 1, 26))
    \cup Range(Digits) \cup {".", "_", "-"}

\* C22: the folder segment on disk is the displayed folder name with every
\* character outside [A-Za-z0-9._-] replaced by "_" and every other character
\* unchanged, at the same length.
C22_AsciiSegment ==
  lpc = "done" =>
    \A i \in 1..Len(folders) :
      LET shown == display_folder(folders[i]) IN
        /\ Len(segments[i]) = Len(shown)
        /\ \A j \in 1..Len(shown) :
             segments[i][j] = IF shown[j] \in AsciiSafe THEN shown[j] ELSE "_"

\* How many times the task stands in the download executor's work queue.
Queued(q, t) == Cardinality({i \in 1..Len(q) : q[i] = t})

\* C23: a (folder, UID) pair is submitted to the download executor at most
\* once, and it is submitted again only by a retry round, once per round,
\* and only when its previous attempt has failed.
C23_SubmitOnce ==
  [][\A t \in Tasks :
       /\ Queued(queue', t) > Queued(queue, t) =>
            /\ fut[t] = "none"
            /\ Queued(queue', t) = 1
       /\ rqueue'[t] > rqueue[t] =>
            /\ mpc \in {"retry_check", "prompt"} /\ mpc' = "retry_wait"
            /\ rqueue[t] = 0 /\ rqueue'[t] = 1
            /\ fut[t] # "none"
            /\ t \in last_failed]_vars

\* The second retry round has resubmitted a task that failed in the first.
C23_Witness ==
  /\ mpc = "retry_wait"
  /\ retry_attempt + manual_rounds = 2
  /\ \E t \in Tasks : rqueue[t] = 1 /\ t \in last_failed /\ round_before[t] = 1

\* C24: no client object is used by two threads: each pool thread works on
\* its thread-local client, the scanner on a client of its own, and no
\* client has two operations in progress at once.
C24_Confined ==
  /\ \A id \in 1..MaxClients :
       /\ Cardinality(touched[id]) <= 1
       /\ Cardinality({th \in ThreadIds : in_op[th] = id}) <= 1
  /\ \A w \in Workers : tl_client[w] # 0 => touched[tl_client[w]] \subseteq {w}
  /\ scan_client # 0 =>
       /\ touched[scan_client] = {ScanThread}
       /\ \A w \in Workers : tl_client[w] # scan_client
       /\ inbox_client # scan_client

\* Two pool threads and the scanner are in the middle of an operation, each
\* on a client of its own.
C24_Witness ==
  /\ in_op[1] # 0
  /\ in_op[2] # 0
  /\ in_op[ScanThread] # 0
  /\ in_op[1] # in_op[2]
  /\ tl_client[1] = in_op[1]
  /\ scan_client = in_op[ScanThread]

\* C25: in a run that was not cancelled the main thread is past the wait loop
\* only when the scanner is done, no task is queued and no pool thread still
\* handles a task, so that every submitted task is folded into the counters;
\* a Completed run reports Remaining = 0.
C25_WaitLoopDrained ==
  (status = "Completed" /\ ~shutdown_event /\ mpc \notin TryBlock \cup {"aborted", "aborted_close"}) =>
    /\ spc = "done"
    /\ queue = <<>>
    /\ \A w \in Pool1 : wpc[w] = "idle"
    /\ \A t \in Tasks : fut[t] # "none" => handled[t]
    /\ mpc = "done" => remaining_count = 0

\* C26: a retry round starts, and the user is asked about one, only in a run
\* that was not cancelled.
C26_RetryOnlyCompleted ==
  [][(mpc' \in {"retry_wait", "prompt"} /\ mpc' # mpc) =>
       (status = "Completed" /\ status' = "Completed")]_vars

\* A cancelled run with failed tasks has gone to its summary, and no round
\* has run.
C26_Witness ==
  /\ status = "Cancelled"
  /\ mpc = "sum_compute"
  /\ ListLen(failed_tasks) > 0
  /\ retry_attempt = 0 /\ manual_rounds = 0
  /\ max_retries > 0

\* C27: the retry phase runs at most max_retries automatic rounds and then at
\* most one manual round: the user is asked at most once, and in batch mode
\* there is no manual round.
C27_RoundsBounded ==
  /\ retry_attempt <= max_retries
  /\ manual_rounds <= 1
  /\ mpc = "prompt" => manual_rounds = 0
  /\ batch => manual_rounds = 0

\* The round of the retry phase that is running or ran last.
RoundNo == retry_attempt + manual_rounds

\* C28: the deadline of retry round k is 60 * k seconds, so it grows from
\* each round to the next.
C28_Deadline ==
  [][(mpc' = "retry_wait" /\ mpc # "retry_wait") =>
       /\ timeout_val' = 60 * RoundNo'
       /\ RoundNo >= 1 => timeout_val' > 60 * RoundNo]_vars

\* C29: a task that a pool thread picks up when the shutdown event is set
\* ends at once with the failure "Shutdown initiated": no connect, select or
\* fetch, no insert in the dedup index and no file is written.
C29_NoWorkAfterSignal ==
  [][\A w \in Workers :
       (shutdown_event /\ wpc[w] = "idle" /\ wpc'[w] # "idle") =>
         /\ wpc'[w] = "callback"
         /\ wres'[w] = "Shutdown initiated"
         /\ wres'[w] \in Failures
         /\ wconn' = wconn
         /\ seen_ids' = seen_ids
         /\ body_fetches' = body_fetches /\ got_body' = got_body
         /\ UNCHANGED disk]_vars

\* A pool thread without a session holds a task it took after the signal.
C29_Witness ==
  /\ shutdown_event
  /\ \E w \in Pool1 :
       /\ wpc[w] = "callback"
       /\ wres[w] = "Shutdown initiated"
       /\ wconn[w] = "none"
       /\ wtask[w] \in outstanding

\* C30: when connect() fails the client is left without a connection handle
\* (None, not a stale, closed or unauthenticated one), so that the thread's
\* next task connects afresh.
C30_NoHandleAfterFailure ==
  \A w \in Workers :
    (wpc[w] = "callback" /\ wres[w] = "Connection failed") => wconn[w] = "none"

\* C31: close() never raises, so a close that fails does not abort the run:
\* main is never thrown out of the INBOX scan by c.close().
C31_CloseNeverAborts == mpc # "aborted_close"

\* The summary is out, no pool thread has anything left to do, and the
\* summary reported the counters as they are.
Settled ==
  /\ mpc = "done"
  /\ \A w \in Workers : wpc[w] = "idle"
  /\ rep_downloaded = downloaded_count
  /\ rep_skipped = skipped_count
  /\ rep_failed = ListLen(failed_tasks)

\* The tasks that have written their .eml file.
Written == {t \in Tasks : writes[t] > 0}

\* C35: at the summary of a run that was not cancelled the downloaded counter
\* is the number of tasks that fetched a body and wrote their file, and every
\* task a retry round counted as recovered has written its file.
C35_DownloadedAreWritten ==
  (Settled /\ status = "Completed") =>
    /\ rep_downloaded = Cardinality(Written)
    /\ recovered_set \subseteq Written

\* C36: at the end of a run that was not cancelled, for every task reported
\* as a skipped duplicate some task with the same Message-ID has written a
\* file.
C36_SkippedIsArchived ==
  (Settled /\ status = "Completed") =>
    \A t \in Tasks :
      cls[t] = "skipped" =>
        \E u \in Written : MessageIdOf(u) = MessageIdOf(t)

\* The per-folder statistics summed over the folders.
RECURSIVE StatSum(_, _)
StatSum(F, kind) ==
  IF F = {} THEN 0
  ELSE LET f == CHOOSE f \in F : TRUE
       IN (CASE kind = "downloaded" -> folder_stats[f].downloaded
             [] kind = "skipped" -> folder_stats[f].skipped
             [] OTHER -> folder_stats[f].failed) + StatSum(F \ {f}, kind)

\* C39: at the summary the per-folder statistics of downloaded, skipped and
\* failed, summed over the folders, are the global counters.
C39_FolderStatsSum ==
  Settled =>
    /\ StatSum(Folders, "downloaded") = rep_downloaded
    /\ StatSum(Folders, "skipped") = rep_skipped
    /\ StatSum(Folders, "failed") = rep_failed

\* C37: two distinct tasks (folder, UID) never have the same file path, so no
\* downloaded message overwrites another.
C37_DistinctPaths ==
  lpc = "done" =>
    \A i, j \in 1..Len(folders) : \A u, v \in 1..2 :
      <<folders[i], u>> # <<folders[j], v>> =>
        file_path(final_subfolder_path, folders[i], u)
          # file_path(final_subfolder_path, folders[j], v)

\* C34: every INBOX task is submitted to the download pool before the scanner
\* submits a task of another folder, and INBOX downloads run while the other
\* folders are still being scanned.
C34_InboxFirst ==
  [][\A t \in Tasks :
       (fut[t] = "none" /\ fut'[t] = "queued") =>
         IF t[1] = INBOX
           THEN \A u \in Tasks : u[1] # INBOX => fut[u] = "none"
           ELSE mpc \notin {"inbox", "inbox_submit"} /\ m_ids = <<>>]_vars

\* An INBOX download is running while the scanner is at work on a folder
\* none of whose tasks is submitted yet.
C34_Witness ==
  /\ spc \in {"folder", "count", "check"}
  /\ \E t \in Tasks : t[1] = INBOX /\ fut[t] = "running"
  /\ \E u \in Tasks : u[1] # INBOX /\ fut[u] = "none"
  /\ ~shutdown_event

\* The tasks of the folders up to f that answered, in scan order.
RECURSIVE TasksOfAnswered(_)
TasksOfAnswered(f) ==
  IF f = 0 THEN <<>>
  ELSE TasksOfAnswered(f - 1)
         \o (IF sc_seen[f] = "ok" THEN [u \in 1..ScanUids |-> <<f, u>>] ELSE <<>>)

\* C33: an error on one folder of the scan skips that folder only: the scan
\* takes every folder in order, submits the tasks of every folder that
\* answered, and ends only after the last folder.
C33_ScanGoesOn ==
  /\ sc_pc \in {"close", "done"} /\ sc_seen # <<>> =>
       /\ Len(sc_seen) = MaxScanFolders
       /\ sc_submitted = TasksOfAnswered(MaxScanFolders)
       /\ sc_total = Len(sc_submitted)
  /\ sc_pc = "folder" /\ sc_folder <= MaxScanFolders + 1 =>
       /\ Len(sc_seen) = sc_folder - 1
       /\ sc_submitted = TasksOfAnswered(sc_folder - 1)

\* The scan is over: the first folder raised, the second could not be
\* selected, and the tasks of the third are submitted.
C33_Witness ==
  /\ sc_pc = "done"
  /\ Len(sc_seen) >= 3
  /\ sc_seen[1] = "raised"
  /\ sc_seen[2] = "select_failed"
  /\ sc_seen[3] = "ok"
  /\ \E i \in 1..Len(sc_submitted) : sc_submitted[i] = <<3, 1>>

\* C32: after an exception inside a task the worker's session is closed and
\* cleared and the task is reported as failed; the worker's next task opens a
\* new connection before any select or fetch.
C32_ExceptionClearsSession ==
  [][\A w \in Workers :
       /\ (wpc'[w] = "callback" /\ wres'[w] = "exception") =>
            /\ wconn'[w] = "none"
            /\ wres'[w] \in Failures
            /\ \A o \in task_prefix(wconn'[w], wtask'[w], FALSE) :
                 o.ops # <<>> /\ o.ops[1] = "connect"
       /\ (wpc[w] = "callback" /\ wres[w] = "exception" /\ wpc'[w] = "idle") =>
            IF w \in Pool1
              THEN handled[wtask[w]] \/ failed_tasks'[wtask[w]] = failed_tasks[wtask[w]] + 1
              ELSE new_failed'[wtask[w]] = new_failed[wtask[w]] + 1
       /\ (wpc[w] = "session" /\ wconn[w] = "none" /\ wpc'[w] \in {"dedup", "fetch"}) =>
            wconn'[w] = "open"]_vars

\* A task whose body was fetched on an open session ended in an exception
\* when its file was written, and the worker's session is cleared.
C32_Witness ==
  \E w \in Workers :
    /\ wpc[w] = "callback"
    /\ wres[w] = "exception"
    /\ wtask[w] \in got_body
    /\ writes[wtask[w]] = 0
    /\ wconn[w] = "none"

\* C38: whenever a worker fetches the Message-ID or the body for a task, the
\* mailbox selected on its session is the task's folder, also after a
\* reconnect inside the task and after a task of another folder.
C38_FetchInTaskFolder == \A x \in k_fetch : x[2] = x[1]

\* The thread has fetched for a task of folder 1 and then, on the same
\* thread, for a task of folder 2, once without and once after a reconnect
\* inside the task.
C38_Witness ==
  /\ k_pc = "content"
  /\ k_folder = 2
  /\ k_conn = "open"
  /\ <<1, 1, FALSE>> \in k_fetch
  /\ <<2, 2, FALSE>> \in k_fetch
  /\ <<2, 2, TRUE>> \in k_fetch

\* The locks thread t holds.
HeldBy(t) == {l \in Locks : lk_held[l] = t}

\* Thread t waits for a lock another thread (or itself) holds.
LockBlocked(t) ==
  /\ lk_prog[t] # <<>>
  /\ LockOp(t)[1] = "acquire"
  /\ lk_held[LockOp(t)[2]] # Nobody

\* A set of threads each of which waits for a lock held inside the set.
LockCycle(S) ==
  /\ S # {}
  /\ \A t \in S : LockBlocked(t) /\ lk_held[LockOp(t)[2]] \in S

\* C40: folder_stats_lock is only held by a thread that holds count_lock,
\* no other two locks are ever held together, no set of threads waits for
\* each other's locks, and every lock that is held is released again.
C40_NoLockDeadlock ==
  /\ [](\A t \in LockThreads :
          /\ "folder_stats_lock" \in HeldBy(t) => "count_lock" \in HeldBy(t)
          /\ Cardinality(HeldBy(t)) > 1 => HeldBy(t) = {"count_lock", "folder_stats_lock"})
  /\ [](\A S \in SUBSET LockThreads : ~LockCycle(S))
  /\ \A l \in Locks : (lk_held[l] # Nobody) ~> (lk_held[l] = Nobody)

\* A worker is inside both with-blocks of the callback while another worker
\* and the scanner wait for count_lock and the main thread, in update_speed,
\* holds active_threads_lock.
C40_Witness ==
  /\ HeldBy(<<"worker", 1>>) = {"count_lock", "folder_stats_lock"}
  /\ LockBlocked(<<"worker", 2>>)
  /\ LockBlocked(Scanner)
  /\ lk_held["active_threads_lock"] = Orchestrator

====
